---- MODULE Spec2Model ----
(***************************************************************************)
(* A model of django-matt: the route registration / dispatch pipeline of   *)
(* core/router.py and core/controller.py, the error mapping of             *)
(* core/errors.py, the CRUD controller and the cache decorators of         *)
(* utils/performance.py.                                                   *)
(*                                                                         *)
(* Python values are modelled as records; every value that can sit in the  *)
(* same record field has the same shape, strings stand for scalars.        *)
(***************************************************************************)
EXTENDS Integers, Sequences, FiniteSets, TLC

VARIABLES
    phase,          \* "registering" while the urls module runs, "serving" after
                    \* get_urls(), "served" once the request has been answered
    routes,         \* APIRouter.routes
    controllers,    \* APIRouter.controllers
    declared,       \* per route, the verb and status_code argument of its decorator call
    url_patterns,   \* the list get_urls() returned, handed to Django
    request,        \* the request Django handed to the resolver last
    invoked,        \* which endpoint / method body ran for it, with which keyword arguments
    response,       \* what the view returned (or the exception it let escape)
    environ,        \* os.environ["DJANGO_DEBUG"] (None: not set)
    handled,        \* the last call that went through an error-handling path
    objects,        \* Task.objects: the stored instances, by primary key
    allocated,      \* the primary keys uuid.uuid4() has produced
    deleted,        \* history: the primary keys a delete() removed
    crud,           \* the last call of a CRUDController method
    manager,        \* the CacheManager instance: enabled, default_timeout
    cache,          \* the Django cache: key -> [value, timeout]
    executions,     \* per decorated function, how often its body has run
    live,           \* history: per argument list, the result stored by the call that
                    \* ran the body, until the entry expires or is invalidated
    invalidated,    \* history: the argument lists invalidated and not stored since
    cache_call,     \* the last operation on the cache manager
    benchmark,      \* the APIBenchmark instance: enabled, measurements
    middleware,     \* the BenchmarkMiddleware instance: enabled
    measured,       \* the last use of the benchmark or of the middleware
    rendered,       \* the last call of FastJSONRenderer or of stream_json_list
    clock,          \* time.time(), in quarters of a second since the reloader started
    last_event_time, \* HotReloadEventHandler.last_event_time
    reload_timer,   \* HotReloadEventHandler.reload_timer: the event it holds, when it is due
    processes,      \* the server subprocesses started so far: args and state
    server_process, \* HotReloader.server_process: an index into processes (0: None)
    clients,        \* WebSocketServer.clients
    closed,         \* the clients whose peer has closed the connection
    received,       \* per client, the reload messages sent to it
    sender,         \* the timer thread inside send_reload_message: its position
    reload,         \* the last call of HotReloader._handle_reload
    os_environ,     \* os.environ: the variables the settings modules read (None: not set)
    config,         \* the ConfigurationManager singleton of django_matt.config
    django_settings, \* the attributes set on django.conf.settings
    configured,     \* the last call of configure()
    schema          \* the last field a schema or a CRUD file was generated from

dispatchVars == <<phase, routes, controllers, declared, url_patterns, request, invoked,
                  response>>
errorVars == <<environ, handled>>
crudVars == <<objects, allocated, deleted, crud>>

cacheVars == <<manager, cache, executions, live, invalidated, cache_call>>

benchmarkVars == <<benchmark, middleware, measured>>

\* the subsystems modelled after the cache manager
jsonVars == <<rendered>>
hotReloadVars == <<clock, last_event_time, reload_timer, processes, server_process, clients,
                   closed, received, sender, reload>>
configVars == <<os_environ, config, django_settings, configured>>
schemaVars == <<schema>>
utilVars == <<benchmarkVars, jsonVars, hotReloadVars, configVars, schemaVars>>

vars == <<dispatchVars, errorVars, crudVars, cacheVars, utilVars>>

outsideDispatch == <<errorVars, crudVars, cacheVars, utilVars>>
outsideErrors == <<dispatchVars, crudVars, cacheVars, utilVars>>
outsideCrud == <<dispatchVars, errorVars, cacheVars, utilVars>>
outsideCache == <<dispatchVars, errorVars, crudVars, utilVars>>
coreVars == <<dispatchVars, errorVars, crudVars, cacheVars>>
outsideBenchmark == <<coreVars, jsonVars, hotReloadVars, configVars, schemaVars>>
outsideJson == <<coreVars, benchmarkVars, hotReloadVars, configVars, schemaVars>>
outsideHotReload == <<coreVars, benchmarkVars, jsonVars, configVars, schemaVars>>
outsideConfig == <<coreVars, benchmarkVars, jsonVars, hotReloadVars, schemaVars>>
outsideSchema == <<coreVars, benchmarkVars, jsonVars, hotReloadVars, configVars>>

(***************************************************************************)
(* Bounds.                                                                 *)
(***************************************************************************)
MaxRegistrations == 2      \* decorated endpoints plus registered controllers

(***************************************************************************)
(* Python values.                                                          *)
(***************************************************************************)
None == "None"
NotGiven == 0              \* a keyword argument left at its default
EmptyDict == [k \in {} |-> None]

Last(s) == s[Len(s)]
Range(s) == {s[i] : i \in 1..Len(s)}

\* dict.update / ** merging: the right operand wins
Merge(a, b) == [k \in DOMAIN a \cup DOMAIN b |-> IF k \in DOMAIN b THEN b[k] ELSE a[k]]

JsonResponse(data, status) == [type |-> "HttpResponse", status |-> status, content |-> data]

Return(v) == [kind |-> "return", value |-> v]
Raise(e) == [kind |-> "raise", exc |-> e]

\* an exception object: its class, the length of exc.args, str(exc), the
\* instance attributes status_code, code and context (0 / "" / {} when the
\* object has none), and the number of dotted parts of its class's __module__
Exc(cls, nargs, message, status_code, code, context, module_parts) ==
    [cls |-> cls, nargs |-> nargs, message |-> message, status_code |-> status_code,
     code |-> code, context |-> context, module_parts |-> module_parts]

\* an exception of a class that defines no attributes of its own
Builtin(cls, nargs) == Exc(cls, nargs, IF nargs = 0 THEN "" ELSE "msg", 0, "", EmptyDict, 1)

TypeError == Builtin("TypeError", 1)
IndexError == Builtin("IndexError", 1)
JSONDecodeError == Builtin("JSONDecodeError", 1)
ValidationError == Builtin("ValidationError", 1)

(***************************************************************************)
(* Request bodies and json.loads.                                          *)
(***************************************************************************)
EmptyBody == [kind |-> "empty"]
MalformedBody == [kind |-> "malformed"]
JsonBody(d) == [kind |-> "json", data |-> d]

\* json.loads(request.body)
json_loads(body) ==
    IF body.kind = "json" THEN Return(body.data) ELSE Raise(JSONDecodeError)

(***************************************************************************)
(* Pydantic schemas: required fields and the defaults of the others.       *)
(* Model(data) fails when a required field is missing, ignores unknown   *)
(* keys, and model_dump() returns every declared field.                    *)
(***************************************************************************)
Schemas ==
    [TodoCreate |-> [required |-> {"title"},
                     defaults |-> [description |-> None, completed |-> "false"]],
     TodoUpdate |-> [required |-> {},
                     defaults |-> [title |-> None, description |-> None, completed |-> None]],
     Todo       |-> [required |-> {"id", "title", "created_at"},
                     defaults |-> [description |-> None, completed |-> "false",
                                   updated_at |-> None]],
     TodoList   |-> [required |-> {"items", "count"},
                     defaults |-> EmptyDict],
     Task       |-> [required |-> {"id", "title", "created_at"},
                     defaults |-> [description |-> None, completed |-> "false",
                                   updated_at |-> None]],
     Message    |-> [required |-> {"message"},
                     defaults |-> [ok |-> "true"]]]

SchemaFields(s) == Schemas[s].required \cup DOMAIN Schemas[s].defaults

\* param_type(body_data) / response_model(result), keyword-expanded
SchemaConstruct(s, data) ==
    IF Schemas[s].required \subseteq DOMAIN data
    THEN Return([f \in SchemaFields(s) |->
                    IF f \in DOMAIN data THEN data[f] ELSE Schemas[s].defaults[f]])
    ELSE Raise(ValidationError)

(***************************************************************************)
(* core/errors.py: the API exceptions.                                     *)
(***************************************************************************)
\* APIError.__init__; status_code and code at NotGiven / "" take the defaults
APIError(message, status_code, code, context) ==
    Exc("APIError", 1, message,
        IF status_code = NotGiven THEN 500 ELSE status_code,
        IF code = "" THEN "api_error" ELSE code,
        context, 3)

\* ValidationAPIError.__init__ with the default message
ValidationAPIError(errors) ==
    [APIError("Validation error", 422, "validation_error",
              [validation_errors |-> errors])
        EXCEPT !.cls = "ValidationAPIError"]

\* NotFoundAPIError.__init__: `if resource_type:` and `if resource_id:` are
\* truth tests, so None and the empty string both skip the branch
NotFoundAPIError(message, resource_type, resource_id) ==
    LET context0 == EmptyDict
        context1 == IF resource_type \notin {None, ""}
                    THEN Merge(context0, [resource_type |-> resource_type])
                    ELSE context0
        context2 == IF resource_id \notin {None, ""}
                    THEN Merge(context1, [resource_id |-> resource_id])
                    ELSE context1
        message2 == IF resource_id \notin {None, ""}
                    THEN (IF resource_type \notin {None, ""} THEN resource_type ELSE "Resource")
                         \o " with ID '" \o resource_id \o "' not found"
                    ELSE message
    IN  [APIError(message2, 404, "not_found", context2) EXCEPT !.cls = "NotFoundAPIError"]

\* PermissionAPIError.__init__
PermissionAPIError(message, required_permission) ==
    LET given == required_permission \notin {None, ""}
    IN  [APIError(IF given
                  THEN "Permission denied: '" \o required_permission \o "' is required"
                  ELSE message,
                  403, "permission_denied",
                  IF given THEN [required_permission |-> required_permission] ELSE EmptyDict)
            EXCEPT !.cls = "PermissionAPIError"]

\* the classes an exception is an instance of (the method resolution order
\* of its class, up to Exception)
ClassMro(cls) ==
    {cls, "Exception"} \cup
    CASE cls \in {"ValidationAPIError", "NotFoundAPIError", "PermissionAPIError"} -> {"APIError"}
      [] cls \in {"PermissionError", "FileNotFoundError"} -> {"OSError"}
      [] cls \in {"JSONDecodeError", "ValidationError"} -> {"ValueError"}
      [] cls \in {"KeyError", "IndexError"} -> {"LookupError"}
      [] cls = "ZeroDivisionError" -> {"ArithmeticError"}
      [] cls = "NotImplementedError" -> {"RuntimeError"}
      [] OTHER -> {}

isinstance(exc, cls) == cls \in ClassMro(exc.cls)

\* str.lower() of the class names that occur
Lower(cls) ==
    CASE cls = "TypeError" -> "typeerror"
      [] cls = "IndexError" -> "indexerror"
      [] cls = "KeyError" -> "keyerror"
      [] cls = "ValueError" -> "valueerror"
      [] cls = "AttributeError" -> "attributeerror"
      [] cls = "ZeroDivisionError" -> "zerodivisionerror"
      [] cls = "NotImplementedError" -> "notimplementederror"
      [] cls = "PermissionError" -> "permissionerror"
      [] cls = "FileNotFoundError" -> "filenotfounderror"
      [] cls = "JSONDecodeError" -> "jsondecodeerror"
      [] cls = "ValidationError" -> "validationerror"
      [] cls = "DoesNotExist" -> "doesnotexist"
      [] cls = "Throttled" -> "throttled"
      [] OTHER -> "exception"

(***************************************************************************)
(* core/errors.py: ErrorHandler and ErrorDetail.                           *)
(***************************************************************************)
\* _get_status_code with KeyError and AttributeError left to the default
_get_status_code_lookup500(exc) ==
    IF exc.status_code # 0 THEN exc.status_code
    ELSE IF isinstance(exc, "ValidationError") THEN 422
    ELSE IF isinstance(exc, "PermissionError") THEN 403
    ELSE IF isinstance(exc, "FileNotFoundError") THEN 404
    ELSE IF isinstance(exc, "JSONDecodeError") THEN 400
    ELSE IF isinstance(exc, "NotImplementedError") THEN 501
    ELSE 500

\* ErrorHandler._get_status_code; hasattr(exc, "status_code") is a non-zero field
_get_status_code(exc) ==
    IF exc.status_code # 0 THEN exc.status_code
    ELSE IF isinstance(exc, "ValidationError") THEN 422
    ELSE IF isinstance(exc, "PermissionError") THEN 403
    ELSE IF isinstance(exc, "FileNotFoundError") THEN 404
    ELSE IF \/ isinstance(exc, "JSONDecodeError")
            \/ isinstance(exc, "KeyError")
            \/ isinstance(exc, "AttributeError") THEN 400
    ELSE IF isinstance(exc, "NotImplementedError") THEN 501
    ELSE 500

\* ErrorHandler._get_error_code
_get_error_code(exc) == IF exc.code # "" THEN exc.code ELSE Lower(exc.cls)

\* ErrorHandler._generate_suggestion; the KeyError branch reads exc.args[0]
_generate_suggestion(exc) ==
    IF isinstance(exc, "ValidationError")
    THEN Return("Check the request data against the schema requirements.")
    ELSE IF isinstance(exc, "PermissionError")
    THEN Return("Ensure the user has the necessary permissions for this action.")
    ELSE IF isinstance(exc, "FileNotFoundError")
    THEN Return("The file could not be found. Check the path and file existence.")
    ELSE IF isinstance(exc, "JSONDecodeError")
    THEN Return("The JSON data is invalid. Check the syntax and structure.")
    ELSE IF isinstance(exc, "KeyError")
    THEN (IF exc.nargs = 0 THEN Raise(IndexError)
          ELSE Return("The key was not found in the dictionary."))
    ELSE IF isinstance(exc, "AttributeError")
    THEN Return("Check that you're accessing a valid attribute on the object.")
    ELSE IF isinstance(exc, "NotImplementedError")
    THEN Return("This feature is not yet implemented.")
    ELSE Return("Review the error message and traceback for more information.")

\* the ErrorDetail capture_exception builds once the suggestion is known
ErrorDetail(debug, exc, req, suggestion) ==
    [message |-> exc.message,
     error_type |-> exc.cls,
     code |-> _get_error_code(exc),
     status_code |-> _get_status_code(exc),
     context |-> [request |-> [method |-> req.method, path |-> req.path]],
     suggestion |-> suggestion,
     traceback_str |-> IF debug THEN "Traceback" ELSE None,
     code_snippet |-> IF debug THEN "snippet" ELSE None]

\* ErrorHandler.capture_exception for a handler built with ErrorHandler(debug):
\* the ErrorDetail it returns, or the exception it raises itself
capture_exception(debug, exc, req) ==
    IF _generate_suggestion(exc).kind = "raise"
    THEN _generate_suggestion(exc)
    ELSE Return(ErrorDetail(debug, exc, req, _generate_suggestion(exc).value))

\* ErrorDetail.to_dict
to_dict(detail, include_traceback, include_snippet) ==
    LET result == [message |-> detail.message, error_type |-> detail.error_type,
                   code |-> detail.code, status_code |-> detail.status_code,
                   context |-> detail.context, suggestion |-> detail.suggestion]
        result2 == IF include_traceback /\ detail.traceback_str # None
                   THEN Merge(result, [traceback |-> detail.traceback_str])
                   ELSE result
    IN  IF include_snippet /\ detail.code_snippet # None
        THEN Merge(result2, [code_snippet |-> detail.code_snippet])
        ELSE result2

\* ErrorDetail.to_response
to_response(detail, include_traceback, include_snippet) ==
    JsonResponse([type |-> "dict", data |-> to_dict(detail, include_traceback, include_snippet)],
                 detail.status_code)

\* error_handler.capture_exception(exc, request).to_response(...)
error_response(debug, exc, req, include_traceback, include_snippet) ==
    IF capture_exception(debug, exc, req).kind = "raise"
    THEN capture_exception(debug, exc, req)
    ELSE Return(to_response(capture_exception(debug, exc, req).value,
                            include_traceback, include_snippet))

(***************************************************************************)
(* core/router.py: the decorators for controller methods.  Each returns    *)
(* the _route_info it attaches to the function.                            *)
(***************************************************************************)
route_info(path, method, response_model, status_code) ==
    [path |-> path, methods |-> <<method>>, response_model |-> response_model,
     status_code |-> status_code]

get(path, response_model, status_code) ==
    route_info(path, "GET", response_model, IF status_code = NotGiven THEN 200 ELSE status_code)

post(path, response_model, status_code) ==
    route_info(path, "POST", response_model, IF status_code = NotGiven THEN 201 ELSE status_code)

put(path, response_model, status_code) ==
    route_info(path, "PUT", response_model, IF status_code = NotGiven THEN 200 ELSE status_code)

patch(path, response_model, status_code) ==
    route_info(path, "PATCH", response_model, IF status_code = NotGiven THEN 200 ELSE status_code)

delete(path, response_model, status_code) ==
    route_info(path, "DELETE", response_model, IF status_code = NotGiven THEN 204 ELSE status_code)

(***************************************************************************)
(* The controller classes of the examples.  dir lists the public names of  *)
(* dir(self), which Python returns in alphabetical order; methods gives    *)
(* the parameters of each callable the wrappers can reach (self excluded), *)
(* its annotations (the return annotation excluded) and, for a route       *)
(* method, its _route_info.                                                *)
(***************************************************************************)
Method(params, hints, info) == [params |-> params, hints |-> hints, info |-> info]
NoRoute == route_info("", "", None, 0)

TodoController ==
    [prefix |-> "todos/",
     auto_error_handling |-> TRUE,
     handle_exception |-> "APIController",
     dir |-> <<"auto_error_handling", "create", "create_schema", "create_todo", "delete",
               "delete_todo", "get_todo", "get_todos", "handle_exception", "list", "model",
               "prefix", "retrieve", "schema", "tags", "update", "update_schema",
               "update_todo">>,
     methods |->
        [get_todos   |-> Method({"request"}, [request |-> "HttpRequest"],
                                get("", "TodoList", NotGiven)),
         get_todo    |-> Method({"request", "id"}, [request |-> "HttpRequest", id |-> "str"],
                                get("{id}", "Todo", NotGiven)),
         create_todo |-> Method({"request", "data"},
                                [request |-> "HttpRequest", data |-> "TodoCreate"],
                                post("", "Todo", 201)),
         update_todo |-> Method({"request", "id", "data"},
                                [request |-> "HttpRequest", id |-> "str", data |-> "TodoUpdate"],
                                put("{id}", "Todo", NotGiven)),
         delete_todo |-> Method({"request", "id"}, [request |-> "HttpRequest", id |-> "str"],
                                delete("{id}", None, 204))]]

CustomErrorHandlingController ==
    [prefix |-> "custom-handling/",
     auto_error_handling |-> TRUE,
     handle_exception |-> "CustomErrorHandlingController",
     dir |-> <<"auto_error_handling", "handle_exception", "key_error", "other_error",
               "prefix", "tags", "zero_division">>,
     methods |->
        [zero_division |-> Method({"request"}, [request |-> "HttpRequest"],
                                  get("zero-division", None, NotGiven)),
         key_error     |-> Method({"request"}, [request |-> "HttpRequest"],
                                  get("key-error", None, NotGiven)),
         other_error   |-> Method({"request"}, [request |-> "HttpRequest"],
                                  get("other-error", None, NotGiven))]]

DisabledErrorHandlingController ==
    [prefix |-> "disabled-handling/",
     auto_error_handling |-> FALSE,
     handle_exception |-> "APIController",
     dir |-> <<"auto_error_handling", "handle_exception", "manual_handling", "no_handling",
               "prefix", "tags">>,
     methods |->
        [manual_handling |-> Method({"request"}, [request |-> "HttpRequest"],
                                    get("manual-handling", None, NotGiven)),
         no_handling     |-> Method({"request"}, [request |-> "HttpRequest"],
                                    get("no-handling", None, NotGiven))]]

\* a controller deriving from Controller itself: no handle_exception
PlainController ==
    [prefix |-> "plain/",
     auto_error_handling |-> TRUE,
     handle_exception |-> None,
     dir |-> <<"auto_error_handling", "prefix", "show", "tags", "work">>,
     methods |->
        [show |-> Method({"request"}, [request |-> "HttpRequest"],
                         get("show", None, NotGiven)),
         work |-> Method({"request", "data"}, [request |-> "HttpRequest", data |-> "TodoCreate"],
                         post("work", None, NotGiven))]]

ControllerClasses ==
    [TodoController |-> TodoController,
     CustomErrorHandlingController |-> CustomErrorHandlingController,
     DisabledErrorHandlingController |-> DisabledErrorHandlingController,
     PlainController |-> PlainController]

\* the names both set-up loops and get_urls select: public, callable, with _route_info
RouteNames(c) ==
    LET C == ControllerClasses[c]
    IN  SelectSeq(C.dir, LAMBDA n : n \in DOMAIN C.methods /\ C.methods[n].info # NoRoute)

(***************************************************************************)
(* core/controller.py: the wrappers Controller.__init__ installs.          *)
(*                                                                         *)
(* A call yields [out, ran, kwargs]: what the callee returned or raised,   *)
(* the method whose body ran (None if none did) and the keyword arguments  *)
(* that body received.  beh is what the body that runs does.               *)
(***************************************************************************)
Dict(d) == [type |-> "dict", data |-> d]
Call(out, ran, kwargs) == [out |-> out, ran |-> ran, kwargs |-> kwargs]
NoKwargs == [k \in {} |-> EmptyDict]

\* the request as a keyword-argument value
ReqArg(req) == [method |-> req.method, path |-> req.path]

HasJsonBody(req) == req.body.kind # "empty" /\ req.content_type = "application/json"

\* calling a bound method with keyword arguments: Python binds them to the
\* parameters (none has a default), then the body runs
CallBound(name, params, kwargs, beh) ==
    IF DOMAIN kwargs # params
    THEN Call(Raise(TypeError), None, NoKwargs)         \* unexpected or missing argument
    ELSE Call(beh, name, kwargs)

\* calling the attribute `name` of a controller instance with keyword arguments
CallAttr(c, name, kwargs, beh) ==
    IF name \notin DOMAIN ControllerClasses[c].methods
    THEN Call(Raise(TypeError), None, NoKwargs)         \* e.g. self.tags: not callable
    ELSE CallBound(name, ControllerClasses[c].methods[name].params, kwargs, beh)

\* the values the closure cells `method` and `hints` of _setup_dependencies
\* hold once its loop has ended: every wrapper the loop created reads them
\* when it is called.  `method` is assigned for every public name, `hints`
\* only for route methods.
dependencies_method(c) == Last(ControllerClasses[c].dir)
dependencies_hints(c) == ControllerClasses[c].methods[Last(RouteNames(c))].hints

\* the injection loop of the wrapper and its call of `method`
inject(c, req, kwargs, beh, hints, body_data, models) ==
    IF \E q \in models : SchemaConstruct(hints[q], body_data).kind = "raise"
    THEN Call(Return(JsonResponse(
                Dict([detail |-> "Validation error", errors |-> "errors"]), 422)),
              None, NoKwargs)
    ELSE CallAttr(c, dependencies_method(c),
                  Merge(IF "request" \in DOMAIN hints
                        THEN Merge(kwargs, [request |-> ReqArg(req)])
                        ELSE kwargs,
                        [q \in models |-> SchemaConstruct(hints[q], body_data).value]),
                  beh)

wrapper_hinted(c, req, kwargs, beh, hints) ==
    IF HasJsonBody(req) /\ json_loads(req.body).kind = "raise"
    THEN Call(Return(JsonResponse(Dict([detail |-> "Invalid JSON"]), 400)), None, NoKwargs)
    ELSE inject(c, req, kwargs, beh, hints,
                IF HasJsonBody(req) THEN json_loads(req.body).value ELSE EmptyDict,
                {q \in DOMAIN hints : hints[q] \in DOMAIN Schemas})

\* Controller._setup_dependencies.wrapper
wrapper(c, req, kwargs, beh) == wrapper_hinted(c, req, kwargs, beh, dependencies_hints(c))

\* CustomErrorHandlingController.handle_exception up to its super() call
custom_handle_exception(exc) ==
    IF isinstance(exc, "ZeroDivisionError")
    THEN Return(JsonResponse(Dict([error |-> "Cannot divide by zero",
                                   suggestion |-> "Try using a non-zero divisor"]), 400))
    ELSE IF isinstance(exc, "KeyError")
    THEN (IF exc.nargs = 0 THEN Raise(IndexError)
          ELSE Return(JsonResponse(Dict([error |-> "Key not found",
                                         suggestion |-> "Check the available keys before accessing"]),
                                   400)))
    ELSE [kind |-> "super"]

\* APIController.handle_exception
api_handle_exception(exc, req) ==
    IF isinstance(exc, "APIError")
    THEN Return(JsonResponse(Dict([detail |-> exc.message, code |-> exc.code,
                                   context |-> exc.context]), exc.status_code))
    ELSE IF isinstance(exc, "ValidationError")
    THEN Return(JsonResponse(Dict([detail |-> "Validation error", errors |-> "errors"]), 422))
    ELSE IF exc.cls = "DoesNotExist"
    THEN (IF exc.module_parts < 2 THEN Raise(IndexError)     \* module.split(".")[-2]
          ELSE Return(JsonResponse(Dict([detail |-> "model not found", code |-> "not_found"]),
                                   404)))
    ELSE error_response(TRUE, exc, req, TRUE, TRUE)

\* self.handle_exception(e, request) as the class named `handler` defines it
handle_exception(handler, exc, req) ==
    IF handler = "CustomErrorHandlingController" /\ custom_handle_exception(exc).kind # "super"
    THEN custom_handle_exception(exc)
    ELSE api_handle_exception(exc, req)

\* the value of the closure cell `method` of _setup_error_handling once its
\* loop has ended: the attribute the last public name has at that time,
\* which _setup_dependencies replaced by its wrapper if it is a route method
error_handling_method(c, req, kwargs, beh) ==
    IF Last(ControllerClasses[c].dir) \in Range(RouteNames(c))
    THEN wrapper(c, req, kwargs, beh)
    ELSE CallAttr(c, Last(ControllerClasses[c].dir),
                  Merge(kwargs, [request |-> ReqArg(req)]), beh)

\* the except clause of error_wrapper
except_Exception(handler, req, exc) ==
    IF handler # None
    THEN handle_exception(handler, exc, req)
    ELSE error_response(TRUE, exc, req, TRUE, TRUE)

error_wrapper_try(handler, req, called) ==
    IF called.out.kind = "return" THEN called
    ELSE [called EXCEPT !.out = except_Exception(handler, req, called.out.exc)]

\* Controller._setup_error_handling.error_wrapper
error_wrapper(c, req, kwargs, beh) ==
    error_wrapper_try(ControllerClasses[c].handle_exception, req,
                      error_handling_method(c, req, kwargs, beh))

\* getattr(controller, name)(request, **kwargs) after Controller.__init__
\* for a route method `name`
installed(c, name, req, kwargs, beh) ==
    IF ControllerClasses[c].auto_error_handling
    THEN error_wrapper(c, req, kwargs, beh)
    ELSE wrapper(c, req, kwargs, beh)

(***************************************************************************)
(* core/router.py: APIRouter.                                              *)
(***************************************************************************)
RouterPrefix == "api/"          \* APIRouter(prefix="api/") of the todo app

\* the view functions of the examples registered with the router's own
\* decorators, and the parameters each accepts
Endpoints == [json_view |-> {"request"}, get_message |-> {"request"}]

\* APIRouter.add_route: the route it appends
add_route(path_pattern, endpoint, methods, response_model, status_code) ==
    [path |-> path_pattern, endpoint |-> endpoint, methods |-> methods,
     response_model |-> response_model, status_code |-> status_code]

APIRouter_get(path_pattern, endpoint, response_model, status_code) ==
    add_route(path_pattern, endpoint, <<"GET">>, response_model,
              IF status_code = NotGiven THEN 200 ELSE status_code)

\* the POST decorator with the default status_code of the GET decorator
APIRouter_post_default200(path_pattern, endpoint, response_model, status_code) ==
    add_route(path_pattern, endpoint, <<"POST">>, response_model,
              IF status_code = NotGiven THEN 200 ELSE status_code)

APIRouter_post(path_pattern, endpoint, response_model, status_code) ==
    add_route(path_pattern, endpoint, <<"POST">>, response_model,
              IF status_code = NotGiven THEN 201 ELSE status_code)

APIRouter_put(path_pattern, endpoint, response_model, status_code) ==
    add_route(path_pattern, endpoint, <<"PUT">>, response_model,
              IF status_code = NotGiven THEN 200 ELSE status_code)

APIRouter_patch(path_pattern, endpoint, response_model, status_code) ==
    add_route(path_pattern, endpoint, <<"PATCH">>, response_model,
              IF status_code = NotGiven THEN 200 ELSE status_code)

APIRouter_delete(path_pattern, endpoint, response_model, status_code) ==
    add_route(path_pattern, endpoint, <<"DELETE">>, response_model,
              IF status_code = NotGiven THEN 204 ELSE status_code)

\* a URL pattern: path(path_pattern, view_func) with what create_view_func
\* bound into view_func
Pattern(path, kind, controller, target, methods, response_model, status_code) ==
    [path |-> path, kind |-> kind, controller |-> controller, target |-> target,
     methods |-> methods, response_model |-> response_model, status_code |-> status_code]

\* get_urls, first loop: one pattern per route
RoutePatterns(rs) ==
    [i \in 1..Len(rs) |->
        Pattern(rs[i].path, "route", None, rs[i].endpoint, rs[i].methods,
                rs[i].response_model, rs[i].status_code)]

\* get_urls, second loop: one pattern per route method of each controller,
\* in dir() order
RECURSIVE ControllerPatterns(_)
ControllerPatterns(cs) ==
    IF cs = <<>> THEN <<>>
    ELSE LET c == Head(cs)
             C == ControllerClasses[c]
             names == RouteNames(c)
         IN  [i \in 1..Len(names) |->
                 LET info == C.methods[names[i]].info
                 IN  Pattern(RouterPrefix \o C.prefix \o info.path, "controller", c, names[i],
                             info.methods, info.response_model, info.status_code)]
             \o ControllerPatterns(Tail(cs))

\* APIRouter.get_urls
get_urls(rs, cs) == RoutePatterns(rs) \o ControllerPatterns(cs)

\* calling a registered endpoint function as endpoint(request, **kwargs)
CallEndpoint(endpoint, kwargs, beh) ==
    IF DOMAIN kwargs \cup {"request"} # Endpoints[endpoint]
    THEN Call(Raise(TypeError), None, NoKwargs)
    ELSE Call(beh, endpoint, kwargs)

\* view_func from "Serialize the response if needed" on, for a route
route_view_result(response_model, status_code, called, result) ==
    IF called.out.kind = "raise" THEN called
    ELSE IF response_model # None /\ result.type = "dict"
    THEN [called EXCEPT !.out =
            IF SchemaConstruct(response_model, result.data).kind = "raise"
            THEN Return(JsonResponse(Dict([detail |-> "Response validation error",
                                           errors |-> "errors"]), 500))
            ELSE Return(JsonResponse(Dict(SchemaConstruct(response_model, result.data).value),
                                     status_code))]
    ELSE IF result.type = "HttpResponse" THEN called
    ELSE [called EXCEPT !.out = Return(JsonResponse(result, status_code))]

route_view_call(pattern, called) ==
    route_view_result(pattern.response_model, pattern.status_code, called, called.out.value)

\* get_urls.create_view_func.view_func for a route
route_view_func(pattern, req, beh) ==
    IF HasJsonBody(req) /\ json_loads(req.body).kind = "raise"
    THEN Call(Return(JsonResponse(Dict([detail |-> "Invalid JSON"]), 400)), None, NoKwargs)
    ELSE route_view_call(pattern,
            CallEndpoint(pattern.target,
                         IF HasJsonBody(req) THEN [body |-> json_loads(req.body).value]
                                             ELSE NoKwargs,
                         beh))

\* view_func from "Serialize the response if needed" on, for a controller method
controller_view_result(response_model, status_code, called, result) ==
    IF called.out.kind = "raise" THEN called
    ELSE IF response_model # None /\ result.type = "dict"
    THEN [called EXCEPT !.out =
            IF SchemaConstruct(response_model, result.data).kind = "raise"
            THEN Return(JsonResponse(Dict([detail |-> "Response validation error",
                                           errors |-> "errors"]), 500))
            ELSE Return(JsonResponse(Dict(SchemaConstruct(response_model, result.data).value),
                                     status_code))]
    ELSE IF result.type = "HttpResponse" THEN called
    ELSE [called EXCEPT !.out = Return(JsonResponse(result, status_code))]

controller_view_call(pattern, called) ==
    controller_view_result(pattern.response_model, pattern.status_code, called,
                           called.out.value)

\* get_urls.create_view_func.view_func for a controller method
controller_view_func(pattern, req, beh) ==
    IF HasJsonBody(req) /\ json_loads(req.body).kind = "raise"
    THEN Call(Return(JsonResponse(Dict([detail |-> "Invalid JSON"]), 400)), None, NoKwargs)
    ELSE controller_view_call(pattern,
            installed(pattern.controller, pattern.target, req,
                      IF HasJsonBody(req) THEN [body |-> json_loads(req.body).value]
                                          ELSE NoKwargs,
                      beh))

\* the view of a URL pattern
view_func(pattern, req, beh) ==
    IF pattern.kind = "route"
    THEN route_view_func(pattern, req, beh)
    ELSE controller_view_func(pattern, req, beh)

\* django.urls: the first pattern whose route equals the request path (the
\* routes registered here contain no <converter:name> part, so a pattern
\* matches exactly its own text and captures nothing); 0 when none matches
resolve(patterns, path) ==
    IF \E i \in 1..Len(patterns) : patterns[i].path = path
    THEN CHOOSE i \in 1..Len(patterns) :
            /\ patterns[i].path = path
            /\ \A j \in 1..(i - 1) : patterns[j].path # path
    ELSE 0

(***************************************************************************)
(* The dispatch specification: the urls module registers endpoints and     *)
(* controllers, calls get_urls(), and Django then serves a request.  The   *)
(* views keep no state from one request to the next, so a behaviour        *)
(* follows a single request through the pipeline.                          *)
(***************************************************************************)
HttpMethods == {"GET", "POST", "PUT", "PATCH", "DELETE"}

\* the functions the urls module decorates, in file order
RouteEndpoints == <<"json_view", "get_message">>
RoutePath == "api/json/"
\* the (response_model, status_code) arguments a decorator is given
RouteOptions == {<<None, NotGiven>>, <<"Message", NotGiven>>, <<"Message", 202>>}

Registrations == Len(routes) + Len(controllers)
CanDecorate == phase = "registering" /\ Registrations < MaxRegistrations
                                     /\ Len(routes) < Len(RouteEndpoints)
NextEndpoint == RouteEndpoints[Len(routes) + 1]

RequestBodies == {EmptyBody, MalformedBody, JsonBody([title |-> "x"]),
                  JsonBody([completed |-> "true"])}
ContentTypes == {"application/json", "text/plain"}
RequestMethods == HttpMethods
RequestPaths == {url_patterns[i].path : i \in 1..Len(url_patterns)} \cup {"missing/"}
Request(method, path, content_type, body) ==
    [method |-> method, path |-> path, content_type |-> content_type, body |-> body]

\* what the body of an endpoint or route method can do
Tuple(d, status) == [type |-> "tuple", data |-> d, status |-> status]
Behaviours ==
    {Return(Dict([message |-> "hi"])),
     Return(Dict([message |-> "hi", extra |-> "e"])),
     Return(Dict([extra |-> "e"])),
     Return(JsonResponse(Dict([detail |-> "custom"]), 418)),
     Return(Tuple([error |-> "Task not found"], 404)),
     Raise(Builtin("ZeroDivisionError", 1))}

NoRequest == Request("", "", "", EmptyBody)
NoOutcome == [kind |-> "none"]
\* pattern: the index of the URL pattern Django resolved (0: none); ran,
\* kwargs: the body that ran and its keyword arguments; beh: what it did
Invoked(pattern, ran, kwargs, beh) ==
    [pattern |-> pattern, ran |-> ran, kwargs |-> kwargs, beh |-> beh]
NotInvoked == Invoked(0, None, NoKwargs, NoOutcome)

\* a call record of the error-handling paths: path is "controller",
\* "middleware" or "decorator"; raised is what the body that ran did (NoOutcome
\* if none ran), caught the outcome that reached the except clause of the
\* path, out what the caller got
Handled(path, controller, method, raised, caught, out) ==
    [path |-> path, controller |-> controller, method |-> method, raised |-> raised,
     caught |-> caught, out |-> out]
NotHandled == Handled(None, None, None, NoOutcome, NoOutcome, NoOutcome)

\* the state of each part of the program before anything has used it
DispatchIdle ==
    /\ phase = "registering"
    /\ routes = <<>>
    /\ controllers = <<>>
    /\ declared = <<>>
    /\ url_patterns = <<>>
    /\ request = NoRequest
    /\ invoked = NotInvoked
    /\ response = NoOutcome
ErrorsIdle ==
    /\ environ = None
    /\ handled = NotHandled

\* what a CRUDController call is recorded as: the method, its id and data /
\* query arguments, Task.objects and the deleted keys before it, its outcome
CrudCall(op, id, args, before, gone, result) ==
    [op |-> op, id |-> id, args |-> args, before |-> before, gone |-> gone,
     result |-> result]
CrudIdle ==
    /\ objects = EmptyDict
    /\ allocated = {}
    /\ deleted = {}
    /\ crud = CrudCall(None, 0, EmptyDict, EmptyDict, {}, NoOutcome)

\* None as a value that is stored and returned, and the absence of a value
PyNone == [type |-> "NoneType"]
Absent == [type |-> "absent"]

\* the functions the source decorates with cache_result / cache_response
\* (lookup stands for a function that returns None and is given a key_prefix);
\* timeout 0 and key_prefix None are the arguments left out
Decorated ==
    [expensive_function |-> [decorator |-> "cache_result", timeout |-> 10, key_prefix |-> None],
     lookup             |-> [decorator |-> "cache_result", timeout |-> 0, key_prefix |-> "users"],
     test_view          |-> [decorator |-> "cache_response", timeout |-> 10, key_prefix |-> None],
     cached_response    |-> [decorator |-> "cache_response", timeout |-> 30, key_prefix |-> None]]

\* what an operation on the cache manager is recorded as: op is "call",
\* "invalidate" or "expire"; stored is live[...] of the argument list before a
\* call (Absent if none), was_invalidated whether it was in invalidated,
\* before the cache before the operation; ran, read, wrote: whether the body
\* ran and whether the cache was read / written
CacheCall(op, func, prefix, args, kwargs, result, ran, read, wrote, stored, inv, before) ==
    [op |-> op, func |-> func, prefix |-> prefix, args |-> args, kwargs |-> kwargs,
     result |-> result, ran |-> ran, read |-> read, wrote |-> wrote, stored |-> stored,
     was_invalidated |-> inv, before |-> before]
NoCacheCall == CacheCall(None, None, None, <<>>, EmptyDict, Absent, FALSE, FALSE, FALSE,
                         Absent, FALSE, EmptyDict)

\* CacheManager.__init__ for the two settings (NotGiven: the setting is absent)
CacheManager(DJANGO_MATT_CACHE_ENABLED, DJANGO_MATT_CACHE_TIMEOUT) ==
    [enabled |-> IF DJANGO_MATT_CACHE_ENABLED = None THEN TRUE
                 ELSE DJANGO_MATT_CACHE_ENABLED = "true",
     default_timeout |-> IF DJANGO_MATT_CACHE_TIMEOUT = NotGiven THEN 300
                         ELSE DJANGO_MATT_CACHE_TIMEOUT]

CacheIdle ==
    /\ manager = CacheManager(None, NotGiven)
    /\ cache = EmptyDict
    /\ executions = [f \in DOMAIN Decorated |-> 0]
    /\ live = EmptyDict
    /\ invalidated = {}
    /\ cache_call = NoCacheCall

\* APIBenchmark.__init__ and BenchmarkMiddleware.__init__ for the setting
\* DJANGO_MATT_BENCHMARK_ENABLED (None: the setting is absent)
APIBenchmark(DJANGO_MATT_BENCHMARK_ENABLED) ==
    [measurements |-> EmptyDict,
     enabled |-> IF DJANGO_MATT_BENCHMARK_ENABLED = None THEN FALSE
                 ELSE DJANGO_MATT_BENCHMARK_ENABLED = "true"]

BenchmarkMiddleware(DJANGO_MATT_BENCHMARK_ENABLED) ==
    [enabled |-> IF DJANGO_MATT_BENCHMARK_ENABLED = None THEN FALSE
                 ELSE DJANGO_MATT_BENCHMARK_ENABLED = "true"]

\* a use of the benchmark: op is "call" (a decorated function is called),
\* "with" (measure(name) in a with statement) or "middleware"; name the
\* argument of measure, func the function, body what the function (or the
\* downstream handler) returned, ran whether it ran, result the outcome of
\* the use, before the measurements before it
Measured(op, name, func, body, ran, duration, result, before) ==
    [op |-> op, name |-> name, func |-> func, body |-> body, ran |-> ran,
     duration |-> duration, result |-> result, before |-> before]
NotMeasured == Measured(None, None, None, PyNone, FALSE, 0, NoOutcome, EmptyDict)

BenchmarkIdle ==
    /\ benchmark = APIBenchmark(None)
    /\ middleware = BenchmarkMiddleware(None)
    /\ measured = NotMeasured

\* a call of the renderer (op "roundtrip": dumps, then loads of its result)
\* or of stream_json_list (op "stream": the generator run to its end)
Rendered(op, lib, obj, chunk_size, dumped, loaded, chunks) ==
    [op |-> op, lib |-> lib, obj |-> obj, chunk_size |-> chunk_size, dumped |-> dumped,
     loaded |-> loaded, chunks |-> chunks]
NotRendered == Rendered(None, None, PyNone, 0, NoOutcome, NoOutcome, <<>>)

JsonIdle == rendered = NotRendered

\* the reload delay of 0.5 s, in quarters of a second
debounce_seconds == 2

\* the browser clients that connect
MaxClients == 2
Clients == 1..MaxClients

\* threading.Timer(debounce_seconds, self._trigger_reload, args=[event])
Timer(event, due, state) == [event |-> event, due |-> due, state |-> state]
NoTimer == Timer([src_path |-> "", ext |-> "", ignored |-> FALSE, is_directory |-> FALSE], 0, "none")

\* the timer thread: idle, or in the loop of send_reload_message with the
\* clients still to visit, the size of the set when the loop began and the
\* clients whose sendall failed
Sender(pc, todo, used, disconnected) ==
    [pc |-> pc, todo |-> todo, used |-> used, disconnected |-> disconnected]
SenderIdle == Sender("idle", {}, 0, {})

\* a call of _handle_reload: the extension of the file, the server process
\* and the clients when it began, those of them whose connection has closed
\* since, the clients a message was sent to, and how it ended ("restarted",
\* "notified", or the exception that ended it)
Reload(ext, server_before, clients_before, gone, notified, outcome) ==
    [ext |-> ext, server_before |-> server_before, clients_before |-> clients_before,
     gone |-> gone, notified |-> notified, outcome |-> outcome]
NoReload == Reload(None, 0, {}, {}, {}, None)

\* subprocess.Popen(command)
Popen(args) == [args |-> args, state |-> "running"]

\* the command runserver_hot builds
server_command == <<"python", "manage.py", "runserver", "--noreload", "127.0.0.1:8000">>

\* HotReloader.start(server_command) has run and no file has changed
HotReloadIdle ==
    /\ clock = debounce_seconds
    /\ last_event_time = 0
    /\ reload_timer = NoTimer
    /\ processes = <<Popen(server_command)>>
    /\ server_process = 1
    /\ clients = {}
    /\ closed = {}
    /\ received = [c \in Clients |-> 0]
    /\ sender = SenderIdle
    /\ reload = NoReload

\* os.environ with none of the variables set that the settings modules read
UnsetEnviron ==
    [CSRF_COOKIE_SECURE |-> None, SESSION_COOKIE_SECURE |-> None,
     SECURE_HSTS_INCLUDE_SUBDOMAINS |-> None, SECURE_HSTS_PRELOAD |-> None,
     SECURE_HSTS_SECONDS |-> None, SECURE_SSL_REDIRECT |-> None,
     DJANGO_MATT_CACHE_ENABLED |-> None, DJANGO_MATT_BENCHMARK_ENABLED |-> None,
     DB_TYPE |-> None]

\* ConfigurationManager.__init__
ConfigurationManager ==
    [settings |-> EmptyDict, loaded_components |-> {}, loaded_environments |-> {},
     base_loaded |-> FALSE, django_settings_applied |-> FALSE]

\* a call of configure(): its arguments and the dictionary it returned
Configured(environment, components, extra_settings, settings) ==
    [environment |-> environment, components |-> components,
     extra_settings |-> extra_settings, settings |-> settings]
NotConfigured == Configured(None, <<>>, EmptyDict, EmptyDict)

ConfigIdle ==
    /\ os_environ = UnsetEnviron
    /\ config = ConfigurationManager
    /\ django_settings = EmptyDict
    /\ configured = NotConfigured

\* a model field handed to the schema generator or to the CRUD generator:
\* its class, its null and blank flags, the type create_schema_from_model
\* gave it, and the type name and the required flag _get_model_fields gave it
Generated(field_class, null, blank, python_type, crud_type, required) ==
    [field_class |-> field_class, null |-> null, blank |-> blank,
     python_type |-> python_type, crud_type |-> crud_type, required |-> required]
NotGenerated == Generated(None, FALSE, FALSE, <<>>, None, FALSE)

SchemaIdle == schema = NotGenerated

UtilIdle == BenchmarkIdle /\ JsonIdle /\ HotReloadIdle /\ ConfigIdle /\ SchemaIdle

CoreIdle == DispatchIdle /\ ErrorsIdle /\ CrudIdle /\ CacheIdle

InitDispatch ==
    /\ DispatchIdle
    /\ ErrorsIdle
    /\ CrudIdle
    /\ CacheIdle
    /\ UtilIdle

Decorate(route, verb, status_code) ==
    /\ routes' = Append(routes, route)
    /\ declared' = Append(declared, [verb |-> verb, status_code |-> status_code])
    /\ UNCHANGED <<phase, controllers, url_patterns, request, invoked, response>>
    /\ UNCHANGED outsideDispatch

RouterGet ==
    /\ CanDecorate
    /\ \E o \in RouteOptions : Decorate(APIRouter_get(RoutePath, NextEndpoint, o[1], o[2]),
                                      "GET", o[2])

RouterPost ==
    /\ CanDecorate
    /\ \E o \in RouteOptions : Decorate(APIRouter_post(RoutePath, NextEndpoint, o[1], o[2]),
                                      "POST", o[2])

RouterPut ==
    /\ CanDecorate
    /\ \E o \in RouteOptions : Decorate(APIRouter_put(RoutePath, NextEndpoint, o[1], o[2]),
                                      "PUT", o[2])

RouterPatch ==
    /\ CanDecorate
    /\ \E o \in RouteOptions : Decorate(APIRouter_patch(RoutePath, NextEndpoint, o[1], o[2]),
                                      "PATCH", o[2])

RouterDelete ==
    /\ CanDecorate
    /\ \E o \in RouteOptions : Decorate(APIRouter_delete(RoutePath, NextEndpoint, o[1], o[2]),
                                      "DELETE", o[2])

\* APIRouter.register_controller
RegisterController ==
    /\ phase = "registering"
    /\ Registrations < MaxRegistrations
    /\ \E c \in DOMAIN ControllerClasses \ Range(controllers) :
          controllers' = Append(controllers, c)
    /\ UNCHANGED <<phase, routes, declared, url_patterns, request, invoked, response>>
    /\ UNCHANGED outsideDispatch

\* urlpatterns = router.get_urls()
GetUrls ==
    /\ phase = "registering"
    /\ url_patterns' = get_urls(routes, controllers)
    /\ phase' = "serving"
    /\ UNCHANGED <<routes, controllers, declared, request, invoked, response>>
    /\ UNCHANGED outsideDispatch

\* Django resolves the path of a request and calls the view of the pattern
HandleRequest ==
    /\ phase = "serving"
    /\ \E m \in RequestMethods, p \in RequestPaths, ct \in ContentTypes,
          b \in RequestBodies, beh \in Behaviours :
          /\ resolve(url_patterns, p) # 0
          /\ \E called \in {view_func(url_patterns[resolve(url_patterns, p)],
                                       Request(m, p, ct, b), beh)} :
                /\ request' = Request(m, p, ct, b)
                /\ invoked' = Invoked(resolve(url_patterns, p), called.ran, called.kwargs,
                                      IF called.ran = None THEN NoOutcome ELSE beh)
                /\ response' = called.out
    /\ phase' = "served"
    /\ UNCHANGED <<routes, controllers, declared, url_patterns>>
    /\ UNCHANGED outsideDispatch

\* no pattern matches: Django answers 404 itself and calls no view
HandleUnmatched ==
    /\ phase = "serving"
    /\ \E m \in RequestMethods, p \in RequestPaths, ct \in ContentTypes, b \in RequestBodies :
          /\ resolve(url_patterns, p) = 0
          /\ request' = Request(m, p, ct, b)
          /\ invoked' = NotInvoked
          /\ response' = [kind |-> "not_found"]
    /\ phase' = "served"
    /\ UNCHANGED <<routes, controllers, declared, url_patterns>>
    /\ UNCHANGED outsideDispatch

NextDispatch ==
    \/ RouterGet \/ RouterPost \/ RouterPut \/ RouterPatch \/ RouterDelete
    \/ RegisterController \/ GetUrls \/ HandleRequest \/ HandleUnmatched

SpecDispatch == InitDispatch /\ [][NextDispatch]_vars

(***************************************************************************)
(* Claims about the dispatch pipeline.                                     *)
(***************************************************************************)
Served == phase = "served" /\ invoked.pattern # 0
ServedPattern == url_patterns[invoked.pattern]
\* the parameters of a controller method that are annotated with a schema
SchemaParams(c, name) ==
    LET hints == ControllerClasses[c].methods[name].hints
    IN  {q \in DOMAIN hints : hints[q] \in DOMAIN Schemas}

\* the request is the one C1 speaks of: JSON, sent with the declared verb to
\* a controller method with a schema parameter, and the body satisfies the schema
C1_Case ==
    /\ Served
    /\ ServedPattern.kind = "controller"
    /\ SchemaParams(ServedPattern.controller, ServedPattern.target) # {}
    /\ request.method \in Range(ServedPattern.methods)
    /\ request.content_type = "application/json"
    /\ request.body.kind = "json"
    /\ \A q \in SchemaParams(ServedPattern.controller, ServedPattern.target) :
          SchemaConstruct(ControllerClasses[ServedPattern.controller]
                             .methods[ServedPattern.target].hints[q],
                          request.body.data).kind = "return"

\* C1: a JSON request whose body satisfies the schema a controller route
\* method declares makes that method run with the schema instance built from
\* the body, and its return value (not an error) becomes the response.
C1_CalledWithSchemaInstance ==
    C1_Case =>
        LET c == ServedPattern.controller
            name == ServedPattern.target
            hints == ControllerClasses[c].methods[name].hints
        IN  /\ invoked.ran = name
            /\ \A q \in SchemaParams(c, name) :
                  /\ q \in DOMAIN invoked.kwargs
                  /\ invoked.kwargs[q] = SchemaConstruct(hints[q], request.body.data).value
            /\ response.kind = "return"

\* the HTTP methods the decorator of the body that ran declared
RanDeclaredMethods ==
    IF ServedPattern.kind = "route" THEN ServedPattern.methods
    ELSE ControllerClasses[ServedPattern.controller].methods[invoked.ran].info.methods

\* C2: an endpoint runs only for requests whose HTTP method is the one its
\* decorator declared, and the request is dispatched to the pattern that
\* declares the request's method.
C2_DispatchRespectsMethod ==
    (Served /\ invoked.ran # None) =>
        /\ request.method \in Range(RanDeclaredMethods)
        /\ request.method \in Range(ServedPattern.methods)

\* the status code C3 gives for a decorator call
C3_DeclaredStatus(d) ==
    IF d.status_code # NotGiven THEN d.status_code
    ELSE CASE d.verb \in {"GET", "PUT", "PATCH"} -> 200
           [] d.verb = "POST" -> 201
           [] d.verb = "DELETE" -> 204

\* C3: the view of a decorated endpoint returns an HttpResponse unchanged,
\* wraps any other value in a JSON response with the declared status (default
\* 200 for GET/PUT/PATCH, 201 for POST, 204 for DELETE), and with a
\* response_model dumps a dict through the model or answers 500 "Response
\* validation error" when the dict does not validate.
C3_ReturnValueNormalized ==
    (Served /\ ServedPattern.kind = "route" /\ invoked.ran # None
            /\ invoked.beh.kind = "return") =>
        LET pat == ServedPattern
            result == invoked.beh.value
            status == C3_DeclaredStatus(declared[invoked.pattern])
            modelled == pat.response_model # None /\ result.type = "dict"
            dumped == SchemaConstruct(pat.response_model, result.data)
        IN  /\ result.type = "HttpResponse" => response = Return(result)
            /\ (result.type # "HttpResponse" /\ ~modelled) =>
                  response = Return(JsonResponse(result, status))
            /\ (modelled /\ dumped.kind = "return") =>
                  response = Return(JsonResponse(Dict(dumped.value), status))
            /\ (modelled /\ dumped.kind = "raise") =>
                  /\ response.kind = "return"
                  /\ response.value.status = 500
                  /\ response.value.content.data.detail = "Response validation error"

\* a POST endpoint declared with a response_model and no status_code returned
\* a dict that validates, and the response carries its dump with status 201
C3_Witness ==
    /\ Served /\ ServedPattern.kind = "route" /\ invoked.ran # None
    /\ request.method = "POST"
    /\ declared[invoked.pattern] = [verb |-> "POST", status_code |-> NotGiven]
    /\ ServedPattern.response_model = "Message"
    /\ invoked.beh = Return(Dict([message |-> "hi", extra |-> "e"]))
    /\ response = Return(JsonResponse(Dict([message |-> "hi", ok |-> "true"]), 201))

\* a controller route method ran for the request and returned a pair
\* (payload, status)
C21_Case ==
    /\ Served
    /\ ServedPattern.kind = "controller"
    /\ invoked.ran # None
    /\ invoked.beh.kind = "return"
    /\ invoked.beh.value.type = "tuple"

\* C21: when a controller route method returns a pair (payload, status), the
\* HTTP response has that status and the payload alone as its JSON body.
C21_PairGivesStatus ==
    C21_Case =>
        response = Return(JsonResponse(Dict(invoked.beh.value.data), invoked.beh.value.status))

(***************************************************************************)
(* The error-handling specification: route methods of controller           *)
(* instances are called through the wrappers Controller.__init__           *)
(* installed, Django hands exceptions of views to ErrorMiddleware, and     *)
(* views decorated with handle_exceptions are called.  None of these paths  *)
(* keeps state from one call to the next, so a behaviour follows one call. *)
(***************************************************************************)
\* the values DJANGO_DEBUG is given in the environment
EnvValues == {None, "False", "True", "true", "1"}

\* str.lower() of those values
str_lower(s) ==
    CASE s = "True" -> "true"
      [] s = "False" -> "false"
      [] OTHER -> s

\* os.environ.get("DJANGO_DEBUG", "False").lower() == "true"
environ_debug(env) == str_lower(IF env = None THEN "False" ELSE env) = "true"

\* ErrorMiddleware.process_exception
process_exception(env, req, exc) ==
    error_response(environ_debug(env), exc, req, environ_debug(env), environ_debug(env))

\* the wrapper handle_exceptions returns, around a view that does beh
handle_exceptions(env, req, beh) ==
    IF beh.kind = "return" THEN beh
    ELSE error_response(environ_debug(env), beh.exc, req,
                        environ_debug(env), environ_debug(env))

\* request.path.startswith("/api/")
path_startswith_api(req) == req.path \in {"/api/errors/"}

\* APIExceptionMiddleware.process_exception: None hands the exception on to
\* the next middleware
api_process_exception(env, req, exc) ==
    IF ~path_startswith_api(req) THEN Return(PyNone)
    ELSE error_response(environ_debug(env), exc, req, environ_debug(env), environ_debug(env))

\* the exceptions a route method or view raises
Exceptions ==
    {APIError("Something went wrong", NotGiven, "", EmptyDict),
     APIError("This is a custom API error", 400, "custom_error", [additional |-> "context"]),
     ValidationAPIError("errors"),
     NotFoundAPIError("Resource not found", "Item", "123"),
     PermissionAPIError("Permission denied", "admin"),
     Exc("Throttled", 1, "slow down", 429, "", EmptyDict, 2),
     Exc("DoesNotExist", 1, "Todo matching query does not exist.", 0, "", EmptyDict, 3),
     Exc("DoesNotExist", 1, "lookup failed", 0, "", EmptyDict, 1),
     Builtin("ValidationError", 1), Builtin("PermissionError", 1),
     Builtin("FileNotFoundError", 1), Builtin("JSONDecodeError", 1),
     Builtin("KeyError", 1), Builtin("KeyError", 0), Builtin("AttributeError", 1),
     Builtin("NotImplementedError", 1), Builtin("ZeroDivisionError", 1),
     Builtin("ValueError", 1), Builtin("IndexError", 1), Builtin("TypeError", 1)}

ErrorBehaviours == {Return(Dict([message |-> "hi"]))} \cup {Raise(e) : e \in Exceptions}

ErrorRequests ==
    {Request("GET", "api/errors/", "text/plain", EmptyBody),
     Request("POST", "api/errors/", "application/json", JsonBody([title |-> "x"]))}

InitErrors ==
    /\ DispatchIdle
    /\ CrudIdle
    /\ CacheIdle
    /\ UtilIdle
    /\ environ \in EnvValues
    /\ handled = NotHandled

\* what reaches the except clause of error_wrapper; without auto error
\* handling there is none, and the outcome of the wrapper is the caller's
TryOutcome(c, inner, called) ==
    IF ControllerClasses[c].auto_error_handling THEN inner.out ELSE called.out

\* controller = SomeController(); controller.name(request)
CallRouteMethod ==
    /\ handled = NotHandled
    /\ \E c \in DOMAIN ControllerClasses, req \in ErrorRequests, beh \in ErrorBehaviours :
          \E name \in Range(RouteNames(c)) :
             \E inner \in {error_handling_method(c, req, NoKwargs, beh)},
                called \in {installed(c, name, req, NoKwargs, beh)} :
                handled' = Handled("controller", c, name,
                                   IF called.ran = None THEN NoOutcome ELSE beh,
                                   TryOutcome(c, inner, called), called.out)
    /\ UNCHANGED <<environ, outsideErrors>>

\* Django calls process_exception of the middleware for an exception of a view
ProcessException ==
    /\ handled = NotHandled
    /\ \E req \in ErrorRequests, exc \in Exceptions :
          handled' = Handled("middleware", None, None, Raise(exc), Raise(exc),
                             process_exception(environ, req, exc))
    /\ UNCHANGED <<environ, outsideErrors>>

\* a view decorated with handle_exceptions is called
CallHandleExceptions ==
    /\ handled = NotHandled
    /\ \E req \in ErrorRequests, beh \in ErrorBehaviours :
          handled' = Handled("decorator", None, None, beh, beh,
                             handle_exceptions(environ, req, beh))
    /\ UNCHANGED <<environ, outsideErrors>>

\* the requests APIExceptionMiddleware sees
ApiRequests ==
    {Request("GET", "/api/errors/", "text/plain", EmptyBody),
     Request("GET", "/admin/", "text/plain", EmptyBody)}

\* Django calls process_exception of APIExceptionMiddleware
ApiProcessException ==
    /\ handled = NotHandled
    /\ \E req \in ApiRequests, exc \in Exceptions :
          handled' = Handled("api_middleware", None, None, Raise(exc), Raise(exc),
                             api_process_exception(environ, req, exc))
    /\ UNCHANGED <<environ, outsideErrors>>

NextErrors ==
    CallRouteMethod \/ ProcessException \/ CallHandleExceptions \/ ApiProcessException

SpecErrors == InitErrors /\ [][NextErrors]_vars

(***************************************************************************)
(* Claims about error handling.                                            *)
(***************************************************************************)
\* C4: with auto_error_handling enabled an exception raised inside a route
\* method never reaches the caller of the installed wrapper, which gets a JSON
\* error response instead; with auto_error_handling = False the exception
\* reaches the caller unchanged.
C4_ErrorsNeverPropagate ==
    (handled.path = "controller" /\ handled.raised.kind = "raise") =>
        IF ControllerClasses[handled.controller].auto_error_handling
        THEN /\ handled.out.kind = "return"
             /\ handled.out.value.type = "HttpResponse"
        ELSE handled.out = handled.raised

\* the status C5 gives for an exception, by the name of its class
C5_Table(exc) ==
    IF exc.status_code # 0 THEN exc.status_code
    ELSE CASE exc.cls = "ValidationError" -> 422
           [] exc.cls = "PermissionError" -> 403
           [] exc.cls = "FileNotFoundError" -> 404
           [] exc.cls \in {"JSONDecodeError", "KeyError", "AttributeError"} -> 400
           [] exc.cls = "NotImplementedError" -> 501
           [] OTHER -> 500

\* the calls in which ErrorHandler.capture_exception captured the exception
\* and a response was built from the ErrorDetail
C5_Captured ==
    /\ handled.caught.kind = "raise"
    /\ handled.out.kind = "return"
    /\ \/ handled.path \in {"middleware", "decorator"}
       \/ /\ handled.path = "controller"
          /\ ControllerClasses[handled.controller].auto_error_handling
          /\ ControllerClasses[handled.controller].handle_exception = None

\* C5: the response built for a captured exception carries the status of the
\* fixed table: the exception's own status_code if it has one (500 for a
\* default APIError, 422 / 404 / 403 for its subclasses), else 422, 403, 404,
\* 400, 501 by class and 500 for everything else; the body states the same.
C5_StatusByTable ==
    C5_Captured =>
        LET exc == handled.caught.exc
            resp == handled.out.value
        IN  /\ resp.type = "HttpResponse"
            /\ resp.status = C5_Table(exc)
            /\ resp.content.data.status_code = resp.status
            /\ exc.cls = "ValidationAPIError" => resp.status = 422
            /\ exc.cls = "NotFoundAPIError" => resp.status = 404
            /\ exc.cls = "PermissionAPIError" => resp.status = 403
            /\ exc = APIError("Something went wrong", NotGiven, "", EmptyDict) =>
                  resp.status = 500

\* the middleware answered a NotImplementedError with status 501
C5_Witness ==
    /\ C5_Captured
    /\ handled.path = "middleware"
    /\ handled.caught = Raise(Builtin("NotImplementedError", 1))
    /\ handled.out.value.status = 501

\* the response of an error path that holds 'traceback' or 'code_snippet'
C17_Disclosed ==
    /\ handled.out.kind = "return"
    /\ handled.out.value.type = "HttpResponse"
    /\ handled.out.value.content.type = "dict"
    /\ {"traceback", "code_snippet"} \cap DOMAIN handled.out.value.content.data # {}

\* C17: a JSON error response of any error path (ErrorMiddleware,
\* APIExceptionMiddleware, handle_exceptions, the controller error wrapper
\* and handle_exception) holds 'traceback' or 'code_snippet' only if
\* DJANGO_DEBUG is 'true' in any case of letters.
C17_DebugOnly == C17_Disclosed => environ_debug(environ)

(***************************************************************************)
(* core/controller.py: CRUDController over the Task model of the startapi  *)
(* template, whose primary key is a UUIDField filled by uuid.uuid4.        *)
(***************************************************************************)
MaxObjects == 2            \* instances created in a behaviour

\* UUIDs, and str() of one
Uuids == 1..(MaxObjects + 1)
uuid_str(u) == "00000000-0000-4000-8000-00000000000" \o ToString(u)

\* a Python object that is compared by type and content
PyObj(type, name) == [type |-> type, name |-> name]
Field(name) == PyObj("Field", name)
Str(s) == PyObj("str", s)

\* a == b: a Field and a str are never equal
PyEq(a, b) == a.type = b.type /\ a.name = b.name

\* x in seq
PyIn(x, seq) == \E i \in 1..Len(seq) : PyEq(seq[i], x)

\* Task._meta.fields
TaskFieldNames == <<"id", "title", "description", "completed", "created_at", "updated_at">>
_meta_fields == [i \in 1..Len(TaskFieldNames) |-> Field(TaskFieldNames[i])]

\* Task(id=uuid4(), created_at=now, updated_at=now, and the given fields)
Task(id, data) ==
    [id |-> id, title |-> data.title, description |-> data.description,
     completed |-> data.completed, created_at |-> "now", updated_at |-> "now"]

DoesNotExist == Exc("DoesNotExist", 1, "Task matching query does not exist.", 0, "",
                    EmptyDict, 3)
IntegrityError == Builtin("IntegrityError", 1)

\* self.model.objects.get(id=id)
objects_get(store, id) ==
    IF id \in DOMAIN store THEN Return(store[id]) ELSE Raise(DoesNotExist)

\* queryset.filter(key=value)
queryset_filter(queryset, key, value) == {o \in queryset : o[key] = value}

\* CRUDController._model_to_dict with schema = TaskSchema
_model_to_dict(instance) == [f \in SchemaFields("Task") |-> instance[f]]

\* the outcome of a CRUDController method and Task.objects after it
CrudResult(out, store) == [out |-> out, store |-> store]

NoModel == Raise(Exc("NotImplementedError", 1, "Model not specified", 0, "", EmptyDict, 1))

\* the loop of list over request.GET.items(), as the set it leaves in queryset
list_queryset(store, GET) ==
    {o \in {store[i] : i \in DOMAIN store} :
        \A key \in DOMAIN GET :
            PyIn(Str(key), _meta_fields) => o \in queryset_filter({o}, key, GET[key])}

\* CRUDController.list
crud_list(model, store, GET) ==
    IF model = None THEN CrudResult(NoModel, store)
    ELSE CrudResult(
            Return(Dict([items |-> {_model_to_dict(o) : o \in list_queryset(store, GET)},
                         count |-> Cardinality({_model_to_dict(o) :
                                                  o \in list_queryset(store, GET)})])),
            store)

\* the except clause retrieve, update and delete share
not_found(model, id) == Raise(NotFoundAPIError(model \o " not found", model, uuid_str(id)))

\* CRUDController.retrieve
crud_retrieve(model, store, id) ==
    IF model = None THEN CrudResult(NoModel, store)
    ELSE IF objects_get(store, id).kind = "raise" THEN CrudResult(not_found(model, id), store)
    ELSE CrudResult(Return(Dict(_model_to_dict(objects_get(store, id).value))), store)

\* CRUDController.create; objects.create gives the instance the key new_id
crud_create(model, store, data, new_id) ==
    IF model = None THEN CrudResult(NoModel, store)
    ELSE CrudResult(Return(Dict(_model_to_dict(Task(new_id, data)))),
                    Merge(store, [i \in {new_id} |-> Task(new_id, data)]))

\* the instance after the setattr loop over data.model_dump()
updated_instance(instance, data_dict) ==
    [f \in DOMAIN instance |-> IF f \in DOMAIN data_dict THEN data_dict[f] ELSE instance[f]]

\* instance.save(): title and completed are NOT NULL columns
save(store, instance) ==
    IF instance.title = None \/ instance.completed = None
    THEN CrudResult(Raise(IntegrityError), store)
    ELSE CrudResult(Return(Dict(_model_to_dict(instance))),
                    [store EXCEPT ![instance.id] = instance])

\* CRUDController.update
crud_update(model, store, id, data) ==
    IF model = None THEN CrudResult(NoModel, store)
    ELSE IF objects_get(store, id).kind = "raise" THEN CrudResult(not_found(model, id), store)
    ELSE save(store, updated_instance(objects_get(store, id).value, data))

\* delete that answers {} and leaves the instance stored
crud_delete_kept(model, store, id) ==
    IF model = None THEN CrudResult(NoModel, store)
    ELSE IF objects_get(store, id).kind = "raise" THEN CrudResult(not_found(model, id), store)
    ELSE CrudResult(Return(Dict(EmptyDict)), store)

\* CRUDController.delete
crud_delete(model, store, id) ==
    IF model = None THEN CrudResult(NoModel, store)
    ELSE IF objects_get(store, id).kind = "raise" THEN CrudResult(not_found(model, id), store)
    ELSE CrudResult(Return(Dict(EmptyDict)),
                    [i \in DOMAIN store \ {id} |-> store[i]])

(***************************************************************************)
(* The CRUD specification: the methods of a TaskController instance are    *)
(* called in any order.                                                    *)
(***************************************************************************)
CrudModel == "Task"        \* TaskController.model.__name__

\* TaskCreate / TaskUpdate instances, as model_dump() returns them
CreateData == [title : {"a", "b"}, description : {None}, completed : {"false", "true"}]
UpdateData == [title : {None, "b"}, description : {None}, completed : {None, "true"}]
\* request.GET
Queries == {EmptyDict, [title |-> "a"], [title |-> "b"], [page |-> "2"],
            [title |-> "a", page |-> "2"]}

InitCrud ==
    /\ DispatchIdle
    /\ ErrorsIdle
    /\ CrudIdle
    /\ CacheIdle
    /\ UtilIdle

\* the bookkeeping every CRUD action shares
Record(op, id, args, called) ==
    /\ objects' = called.store
    /\ crud' = CrudCall(op, id, args, objects, deleted, called.out)

Create ==
    /\ Cardinality(allocated) < MaxObjects
    /\ \E data \in CreateData, new_id \in Uuids \ allocated :
          /\ Record("create", new_id, data, crud_create(CrudModel, objects, data, new_id))
          /\ allocated' = allocated \cup {new_id}
    /\ UNCHANGED <<deleted, outsideCrud>>

Retrieve ==
    /\ \E id \in Uuids :
          Record("retrieve", id, EmptyDict, crud_retrieve(CrudModel, objects, id))
    /\ UNCHANGED <<allocated, deleted, outsideCrud>>

Update ==
    /\ \E id \in Uuids, data \in UpdateData :
          Record("update", id, data, crud_update(CrudModel, objects, id, data))
    /\ UNCHANGED <<allocated, deleted, outsideCrud>>

Delete ==
    /\ \E id \in Uuids :
          \E called \in {crud_delete(CrudModel, objects, id)} :
             /\ Record("delete", id, EmptyDict, called)
             /\ deleted' = IF called.out.kind = "return" THEN deleted \cup {id} ELSE deleted
    /\ UNCHANGED <<allocated, outsideCrud>>

List ==
    /\ \E GET \in Queries :
          Record("list", 0, GET, crud_list(CrudModel, objects, GET))
    /\ UNCHANGED <<allocated, deleted, outsideCrud>>

NextCrud == Create \/ Retrieve \/ Update \/ Delete \/ List

SpecCrud == InitCrud /\ [][NextCrud]_vars

(***************************************************************************)
(* Claims about the CRUD controller.                                       *)
(***************************************************************************)
\* the error C6 describes for the id of the last call
C6_IsNotFound(result) ==
    /\ result.kind = "raise"
    /\ result.exc.cls = "NotFoundAPIError"
    /\ result.exc.status_code = 404
    /\ result.exc.code = "not_found"
    /\ result.exc.context = [resource_type |-> "Task", resource_id |-> uuid_str(crud.id)]

C6_ById == crud.op \in {"retrieve", "update", "delete"}

\* C6: retrieve, update and delete with an id no stored instance has raise
\* NotFoundAPIError (404, 'not_found', context with resource type and id)
\* and leave the stored instances as they were; a delete that succeeded
\* removed the instance, and every later call with a deleted id raises that
\* error.
C6_NotFoundRaised ==
    /\ (C6_ById /\ crud.id \notin DOMAIN crud.before) =>
          /\ C6_IsNotFound(crud.result)
          /\ objects = crud.before
    /\ (crud.op = "delete" /\ crud.result.kind = "return") => crud.id \notin DOMAIN objects
    /\ (C6_ById /\ crud.id \in crud.gone) => C6_IsNotFound(crud.result)

\* an update with the id of an instance that a delete removed earlier raised
\* the error, while another instance is stored
C6_Witness ==
    /\ crud.op = "update"
    /\ crud.id \in crud.gone
    /\ C6_IsNotFound(crud.result)
    /\ objects # EmptyDict
    /\ objects = crud.before

\* the items C7 gives for a query: the stored instances that agree with every
\* query parameter that names a model field
C7_Items ==
    {_model_to_dict(crud.before[i]) :
        i \in {j \in DOMAIN crud.before :
                 \A key \in DOMAIN crud.args \cap Range(TaskFieldNames) :
                    crud.before[j][key] = crud.args[key]}}

\* C7: list returns exactly the stored instances whose fields equal the query
\* parameters that name model fields, ignores the other parameters, and its
\* count is the number of items.
C7_ListFilters ==
    crud.op = "list" =>
        /\ crud.result.kind = "return"
        /\ crud.result.value.data.items = C7_Items
        /\ crud.result.value.data.count = Cardinality(crud.result.value.data.items)

(***************************************************************************)
(* utils/performance.py: CacheManager.                                     *)
(***************************************************************************)
\* repr() of a str
repr(v) == "'" \o v \o "'"

\* ", ".join(repr(v) for v in args[i:])
RECURSIVE join_reprs(_, _)
join_reprs(args, i) ==
    IF i > Len(args) THEN ""
    ELSE IF i = Len(args) THEN repr(args[i])
    ELSE repr(args[i]) \o ", " \o join_reprs(args, i + 1)

\* str(args) of a tuple
str_tuple(args) ==
    IF Len(args) = 1 THEN "(" \o repr(args[1]) \o ",)"
    ELSE "(" \o join_reprs(args, 1) \o ")"

\* the keyword names that occur, in sorted order
KwargNames == <<"id", "param">>

\* str(sorted(kwargs.items()))
RECURSIVE join_items(_, _, _)
join_items(kwargs, i, first) ==
    IF i > Len(KwargNames) THEN ""
    ELSE IF KwargNames[i] \notin DOMAIN kwargs THEN join_items(kwargs, i + 1, first)
    ELSE (IF first THEN "" ELSE ", ")
         \o "(" \o repr(KwargNames[i]) \o ", " \o repr(kwargs[KwargNames[i]]) \o ")"
         \o join_items(kwargs, i + 1, FALSE)

str_sorted_items(kwargs) == "[" \o join_items(kwargs, 1, TRUE) \o "]"

\* hashlib.md5(data.encode()).hexdigest(), taken to be free of collisions
md5_hexdigest(data) == "md5<" \o data \o ">"

\* CacheManager._get_cache_key
_get_cache_key(prefix, args, kwargs) ==
    "django_matt:" \o prefix \o ":"
    \o md5_hexdigest(prefix \o ":"
                     \o (IF Len(args) > 0 THEN str_tuple(args) ELSE "") \o ":"
                     \o (IF DOMAIN kwargs # {} THEN str_sorted_items(kwargs) ELSE ""))

\* cache.get(key): None for a key that is not stored
cache_get(store, key) == IF key \in DOMAIN store THEN store[key].value ELSE PyNone

\* cache.set(key, value, timeout)
cache_set(store, key, value, timeout) ==
    Merge(store, [k \in {key} |-> [value |-> value, timeout |-> timeout]])

\* cache.delete(key)
cache_delete(store, key) == [k \in DOMAIN store \ {key} |-> store[k]]

\* the body of a decorated function, run for the n-th time: expensive_function
\* counts its runs, the views put time.time() into the response
FuncBody(func, args, kwargs, n) ==
    CASE func = "expensive_function" ->
            Dict([result |-> IF Len(args) > 0 THEN args[1] ELSE kwargs.param, count |-> n])
      [] func = "lookup" -> PyNone
      [] func = "test_view" ->
            JsonResponse(Dict([data |-> "test_value", timestamp |-> n]), 200)
      [] func = "cached_response" ->
            JsonResponse(Dict([message |-> "This response is cached for 30 seconds.",
                               timestamp |-> n]), 200)

\* what a wrapper did: its result, whether the body ran, whether the cache
\* was read and written, and the cache afterwards
Wrapped(result, ran, read, wrote, store) ==
    [result |-> result, ran |-> ran, read |-> read, wrote |-> wrote, store |-> store]

\* prefix = key_prefix or func.__name__
key_prefix_or_name(func) ==
    IF Decorated[func].key_prefix \notin {None, ""} THEN Decorated[func].key_prefix ELSE func

\* cache_timeout = timeout or self.default_timeout
timeout_or_default(mgr, func) ==
    IF Decorated[func].timeout # 0 THEN Decorated[func].timeout ELSE mgr.default_timeout

\* the wrapper after the enabled test: look the key up, else run and store
lookup_or_run(mgr, store, func, key, value) ==
    IF cache_get(store, key) # PyNone
    THEN Wrapped(cache_get(store, key), FALSE, TRUE, FALSE, store)
    ELSE Wrapped(value, TRUE, TRUE, TRUE,
                 cache_set(store, key, value, timeout_or_default(mgr, func)))

\* the wrapper cache_result returns, called with (*args, **kwargs); n numbers
\* the run of the body if it runs
cache_result(mgr, store, func, args, kwargs, n) ==
    IF ~mgr.enabled
    THEN Wrapped(FuncBody(func, args, kwargs, n), TRUE, FALSE, FALSE, store)
    ELSE lookup_or_run(mgr, store, func,
                       _get_cache_key(key_prefix_or_name(func), args, kwargs),
                       FuncBody(func, args, kwargs, n))

\* cache_response whose wrapper does not test self.enabled
cache_response_always(mgr, store, func, req, args, kwargs, n) ==
    lookup_or_run(mgr, store, func,
                  _get_cache_key(key_prefix_or_name(func), args, kwargs),
                  FuncBody(func, args, kwargs, n))

\* the wrapper cache_response returns, called with (request, *args, **kwargs):
\* the request is not part of the key
cache_response(mgr, store, func, req, args, kwargs, n) ==
    IF ~mgr.enabled
    THEN Wrapped(FuncBody(func, args, kwargs, n), TRUE, FALSE, FALSE, store)
    ELSE lookup_or_run(mgr, store, func,
                       _get_cache_key(key_prefix_or_name(func), args, kwargs),
                       FuncBody(func, args, kwargs, n))

\* invalidate that builds the key from the prefix alone
invalidate_prefix_only(store, key_prefix, args, kwargs) ==
    cache_delete(store, _get_cache_key(key_prefix, <<>>, EmptyDict))

\* CacheManager.invalidate
invalidate(store, key_prefix, args, kwargs) ==
    cache_delete(store, _get_cache_key(key_prefix, args, kwargs))

(***************************************************************************)
(* The cache specification: decorated functions are called, entries are    *)
(* invalidated, and entries expire when their timeout has passed.          *)
(***************************************************************************)
MaxExecutions == 3         \* runs of decorated function bodies in a behaviour

\* an argument list of a decorated function (for a view, without the request)
Sig(func, args, kwargs) == [func |-> func, args |-> args, kwargs |-> kwargs]
AllSigs ==
    {Sig("expensive_function", <<"test">>, EmptyDict),
     Sig("expensive_function", <<"different">>, EmptyDict),
     Sig("expensive_function", <<>>, [param |-> "test"]),
     Sig("lookup", <<"ann">>, EmptyDict),
     Sig("test_view", <<>>, EmptyDict),
     Sig("cached_response", <<>>, EmptyDict)}

\* the arguments invalidate is called with: those of every argument list,
\* the name of the function that was given a key_prefix, and a prefix alone
Invalidations ==
    {[prefix |-> key_prefix_or_name(sig.func), args |-> sig.args, kwargs |-> sig.kwargs] :
        sig \in AllSigs}
    \cup {[prefix |-> "lookup", args |-> <<"ann">>, kwargs |-> EmptyDict],
          [prefix |-> "expensive_function", args |-> <<>>, kwargs |-> EmptyDict]}

CacheRequest == Request("GET", "/test/", "text/plain", EmptyBody)

\* the values settings.DJANGO_MATT_CACHE_ENABLED has (None: not set)
CacheEnabledSettings == {None, "true", "false"}

InitCache ==
    /\ DispatchIdle
    /\ ErrorsIdle
    /\ CrudIdle
    /\ UtilIdle
    /\ \E setting \in CacheEnabledSettings : manager = CacheManager(setting, NotGiven)
    /\ cache = EmptyDict
    /\ executions = [f \in DOMAIN Decorated |-> 0]
    /\ live = EmptyDict
    /\ invalidated = {}
    /\ cache_call = NoCacheCall

TotalExecutions ==
    executions["expensive_function"] + executions["lookup"] + executions["test_view"]
    + executions["cached_response"]

\* the decorated function called with an argument list
call_decorated(sig, n) ==
    IF Decorated[sig.func].decorator = "cache_result"
    THEN cache_result(manager, cache, sig.func, sig.args, sig.kwargs, n)
    ELSE cache_response(manager, cache, sig.func, CacheRequest, sig.args, sig.kwargs, n)

\* the argument lists invalidate(prefix, args, kwargs) names: those of the
\* functions decorated under that prefix
Named(prefix, args, kwargs) ==
    {sig \in AllSigs :
        /\ (IF Decorated[sig.func].key_prefix = None THEN sig.func
            ELSE Decorated[sig.func].key_prefix) = prefix
        /\ sig.args = args
        /\ sig.kwargs = kwargs}

\* a decorated function is called
CallDecorated ==
    /\ \E sig \in AllSigs :
          \E called \in {call_decorated(sig, executions[sig.func] + 1)} :
             /\ called.ran => TotalExecutions < MaxExecutions
             /\ cache' = called.store
             /\ executions' = IF called.ran
                              THEN [executions EXCEPT ![sig.func] = @ + 1]
                              ELSE executions
             /\ live' = IF called.wrote
                        THEN Merge(live, [x \in {sig} |-> called.result])
                        ELSE live
             /\ invalidated' = IF called.wrote THEN invalidated \ {sig} ELSE invalidated
             /\ cache_call' = CacheCall("call", sig.func, None, sig.args, sig.kwargs,
                                        called.result, called.ran, called.read, called.wrote,
                                        IF sig \in DOMAIN live THEN live[sig] ELSE Absent,
                                        sig \in invalidated, cache)
    /\ UNCHANGED <<manager, outsideCache>>

\* cache_manager.invalidate(prefix, *args, **kwargs)
Invalidate ==
    /\ \E i \in Invalidations :
          /\ cache' = invalidate(cache, i.prefix, i.args, i.kwargs)
          /\ live' = [x \in DOMAIN live \ Named(i.prefix, i.args, i.kwargs) |-> live[x]]
          /\ invalidated' = invalidated \cup (Named(i.prefix, i.args, i.kwargs) \cap DOMAIN live)
          /\ cache_call' = CacheCall("invalidate", None, i.prefix, i.args, i.kwargs, Absent,
                                     FALSE, FALSE, TRUE, Absent, FALSE, cache)
    /\ UNCHANGED <<manager, executions, outsideCache>>

\* the timeout of an entry passes and the cache drops it
Expire ==
    /\ \E sig \in DOMAIN live :
          /\ _get_cache_key(key_prefix_or_name(sig.func), sig.args, sig.kwargs) \in DOMAIN cache
          /\ cache' = cache_delete(cache, _get_cache_key(key_prefix_or_name(sig.func),
                                                         sig.args, sig.kwargs))
          /\ live' = [x \in DOMAIN live \ {sig} |-> live[x]]
          /\ cache_call' = CacheCall("expire", sig.func, None, sig.args, sig.kwargs, Absent,
                                     FALSE, FALSE, TRUE, Absent, FALSE, cache)
    /\ UNCHANGED <<manager, executions, invalidated, outsideCache>>

\* the attributes of a CacheManager instance: those __init__ assigns and the
\* methods the class defines
CacheManagerAttributes ==
    {"cache", "enabled", "default_timeout", "_get_cache_key", "cache_response",
     "cache_result", "invalidate", "invalidate_pattern"}

AttributeError == Builtin("AttributeError", 1)

\* manager.<name>: the attribute, or AttributeError (the class defines no
\* __getattr__)
CacheManager_getattr(name) ==
    IF name \in CacheManagerAttributes THEN Return(name) ELSE Raise(AttributeError)

\* the store calls made on a cache manager: set with and without a timeout,
\* get and delete
StoreCalls ==
    {[name |-> "set", args |-> <<"test_key", "test_value">>, kwargs |-> [timeout |-> "10"]],
     [name |-> "set", args |-> <<"test_key", "test_value">>, kwargs |-> EmptyDict],
     [name |-> "get", args |-> <<"test_key">>, kwargs |-> EmptyDict],
     [name |-> "delete", args |-> <<"test_key">>, kwargs |-> EmptyDict]}

\* cache_manager.set(key, value[, timeout=...]) / .get(key) / .delete(key):
\* the call ends where the attribute is looked up
CallStoreMethod ==
    /\ \E c \in StoreCalls :
          cache_call' = CacheCall(c.name, None, None, c.args, c.kwargs,
                                  CacheManager_getattr(c.name), FALSE, FALSE, FALSE,
                                  Absent, FALSE, cache)
    /\ UNCHANGED <<manager, cache, executions, live, invalidated, outsideCache>>

NextCache == CallDecorated \/ Invalidate \/ Expire \/ CallStoreMethod

SpecCache == InitCache /\ [][NextCache]_vars

(***************************************************************************)
(* Claims about the cache manager.                                         *)
(***************************************************************************)
CalledSig == Sig(cache_call.func, cache_call.args, cache_call.kwargs)
KeyOf(sig) == _get_cache_key(key_prefix_or_name(sig.func), sig.args, sig.kwargs)

\* every result that is live sits in the cache under the key of its own
\* argument list, and no two argument lists share a key
LiveEntriesCached ==
    \A sig \in DOMAIN live :
        /\ KeyOf(sig) \in DOMAIN cache
        /\ cache[KeyOf(sig)].value = live[sig]
        /\ \A other \in AllSigs \ {sig} : KeyOf(other) # KeyOf(sig)

C8_Call ==
    /\ cache_call.op = "call"
    /\ Decorated[cache_call.func].decorator = "cache_result"
    /\ manager.enabled

\* a call with an argument list that has no live entry ran the body and
\* cached the result under a key of its own
C8_MissRuns ==
    cache_call.stored = Absent =>
        /\ cache_call.ran
        /\ live[CalledSig] = cache_call.result
        /\ LiveEntriesCached

\* C8: while caching is enabled, a cache_result function called with an
\* argument list whose entry is live returns the result of the call that
\* stored it and does not run its body; called with another argument list it
\* runs the body and caches the result under a different key.
C8_Memoized ==
    C8_Call =>
        /\ cache_call.stored # Absent =>
              /\ cache_call.result = cache_call.stored
              /\ ~cache_call.ran
        /\ C8_MissRuns

C9_Call ==
    /\ cache_call.op = "call"
    /\ Decorated[cache_call.func].decorator = "cache_response"

C10_Named ==
    {sig \in AllSigs :
        /\ cache_call.prefix = (IF sig.func = "lookup" THEN "users" ELSE sig.func)
        /\ sig.args = cache_call.args
        /\ sig.kwargs = cache_call.kwargs}

\* C10: invalidate removes the entry stored for the prefix and arguments it
\* is given and no other entry, and the next call with those arguments runs
\* the body again.
C10_InvalidateExact ==
    /\ cache_call.op = "invalidate" =>
          /\ DOMAIN cache \subseteq DOMAIN cache_call.before
          /\ \A sig \in AllSigs :
                IF sig \in C10_Named
                THEN KeyOf(sig) \notin DOMAIN cache
                ELSE KeyOf(sig) \in DOMAIN cache_call.before =>
                        /\ KeyOf(sig) \in DOMAIN cache
                        /\ cache[KeyOf(sig)] = cache_call.before[KeyOf(sig)]
    /\ (cache_call.op = "call" /\ manager.enabled /\ cache_call.was_invalidated) =>
          cache_call.ran

\* after an invalidate, expensive_function("test") ran its body a second
\* time while the entry of expensive_function("different") stayed cached
C10_Witness ==
    /\ cache_call.op = "call"
    /\ manager.enabled
    /\ cache_call.was_invalidated
    /\ cache_call.ran
    /\ CalledSig = Sig("expensive_function", <<"test">>, EmptyDict)
    /\ cache_call.result = Dict([result |-> "test", count |-> 3])
    /\ KeyOf(Sig("expensive_function", <<"different">>, EmptyDict)) \in DOMAIN cache_call.before
    /\ cache[KeyOf(Sig("expensive_function", <<"different">>, EmptyDict))].value
          = Dict([result |-> "different", count |-> 2])

\* C11: the cache manager is a key-value store: set(key, value) returns and
\* leaves value stored under key, get(key) returns what is stored under key
\* (None if nothing is), and delete(key) returns and leaves nothing stored
\* under key.
C11_KeyValueStore ==
    /\ cache_call.op = "set" =>
          /\ cache_call.result.kind = "return"
          /\ cache_call.args[1] \in DOMAIN cache
          /\ cache[cache_call.args[1]].value = cache_call.args[2]
    /\ cache_call.op = "get" =>
          /\ cache_call.result.kind = "return"
          /\ cache_call.result.value = cache_get(cache_call.before, cache_call.args[1])
    /\ cache_call.op = "delete" =>
          /\ cache_call.result.kind = "return"
          /\ cache_call.args[1] \notin DOMAIN cache

(***************************************************************************)
(* utils/performance.py: APIBenchmark and BenchmarkMiddleware.             *)
(* A duration is a number of hundredths of a millisecond.                  *)
(***************************************************************************)
MaxMeasurements == 3       \* measurements recorded in one behaviour

\* what (end_time - start_time) * 1000 can be: two readings of the clock
\* that agree, and two short stretches of time
Durations == {0, 1, 1234}

\* f"{duration:.2f}ms"
format_ms(duration) ==
    ToString(duration \div 100) \o "." \o ToString((duration % 100) \div 10)
    \o ToString(duration % 10) \o "ms"

\* a / b of two floats, kept exact
truediv(a, b) == [num |-> a, den |-> b]

float_inf == 1000000

min(a, b) == IF a < b THEN a ELSE b
max(a, b) == IF a > b THEN a ELSE b

\* response[name] = value
set_header(resp, name, value) ==
    [type |-> resp.type, status |-> resp.status, content |-> resp.content,
     headers |-> Merge(IF "headers" \in DOMAIN resp THEN resp.headers ELSE EmptyDict,
                       [h \in {name} |-> value])]

\* the functions measure is applied to, and what their bodies return
BenchmarkBody(func) ==
    CASE func = "test_function" -> Str("result")
      [] func = "standard_json" -> JsonResponse(Dict([data |-> "LARGE_DATASET"]), 200)

\* APIBenchmark._record_measurement
new_measurement == [count |-> 0, total_time |-> 0, min_time |-> float_inf, max_time |-> 0,
                    avg_time |-> truediv(0, 1)]
recorded(m, duration) ==
    [count |-> m.count + 1,
     total_time |-> m.total_time + duration,
     min_time |-> min(m.min_time, duration),
     max_time |-> max(m.max_time, duration),
     avg_time |-> truediv(m.total_time + duration, m.count + 1)]
_record_measurement(measurements, name, duration) ==
    Merge(measurements,
          [n \in {name} |-> recorded(IF name \in DOMAIN measurements THEN measurements[name]
                                     ELSE new_measurement, duration)])

\* measurement_name = name or func.__name__
measurement_name(name, func) == IF name \notin {None, ""} THEN name ELSE func

\* APIBenchmark.measure(name)(func)(): sync_wrapper (async_wrapper does the
\* same around an awaited call)
sync_wrapper(bm, name, func, duration) ==
    IF ~bm.enabled
    THEN [result |-> BenchmarkBody(func), measurements |-> bm.measurements]
    ELSE [result |-> IF BenchmarkBody(func).type = "HttpResponse"
                     THEN set_header(BenchmarkBody(func), "X-Django-Matt-Timing",
                                     format_ms(duration))
                     ELSE BenchmarkBody(func),
          measurements |-> _record_measurement(bm.measurements,
                                               measurement_name(name, func), duration)]

\* APIBenchmark.measure(name): the inner function decorator
measure(name) == [type |-> "function", name |-> "decorator", closure |-> name]

\* with cm: ... for an object of a type without __enter__ / __exit__: the
\* statement raises before the block runs (TypeError from Python 3.11 on,
\* AttributeError before)
WithErrors == {"TypeError", "AttributeError"}
with_statement(cm, err) ==
    IF cm.type = "function" THEN Raise(Builtin(err, 1)) ELSE Return(PyNone)

\* BenchmarkMiddleware.__call__
get_response == JsonResponse(Dict([data |-> "test"]), 200)
BenchmarkMiddleware_call(mw, duration) ==
    IF ~mw.enabled THEN get_response
    ELSE set_header(get_response, "X-Django-Matt-Request-Time", format_ms(duration))

(***************************************************************************)
(* The benchmark in use.                                                   *)
(***************************************************************************)
\* measure(name) applied to a function
MeasureUses ==
    {[name |-> "test_operation", func |-> "test_function"],
     [name |-> None, func |-> "test_function"],
     [name |-> "standard_json", func |-> "standard_json"]}

BenchmarkEnabledSettings == {None, "true", "false"}

InitBenchmark ==
    /\ CoreIdle
    /\ JsonIdle
    /\ HotReloadIdle
    /\ ConfigIdle
    /\ SchemaIdle
    /\ \E setting \in BenchmarkEnabledSettings :
          /\ benchmark = APIBenchmark(setting)
          /\ middleware = BenchmarkMiddleware(setting)
    /\ measured = NotMeasured

TotalMeasurements ==
    LET names == {"test_operation", "test_function", "standard_json"}
        count(n) == IF n \in DOMAIN benchmark.measurements
                    THEN benchmark.measurements[n].count ELSE 0
    IN  count("test_operation") + count("test_function") + count("standard_json")

\* a function decorated with benchmark.measure(name) is called
CallMeasured ==
    /\ \E use \in MeasureUses, duration \in Durations :
          \E called \in {sync_wrapper(benchmark, use.name, use.func, duration)} :
             /\ benchmark.enabled => TotalMeasurements < MaxMeasurements
             /\ benchmark' = [benchmark EXCEPT !.measurements = called.measurements]
             /\ measured' = Measured("call", use.name, use.func, BenchmarkBody(use.func), TRUE,
                                     duration, Return(called.result), benchmark.measurements)
    /\ UNCHANGED <<middleware, outsideBenchmark>>

\* with benchmark.measure(name): time.sleep(0.01)
WithMeasure ==
    /\ \E err \in WithErrors, duration \in Durations :
          \E entered \in {with_statement(measure("test_operation"), err)} :
             measured' = Measured("with", "test_operation", None, PyNone,
                                  entered.kind = "return", duration, entered,
                                  benchmark.measurements)
    /\ UNCHANGED <<benchmark, middleware, outsideBenchmark>>

\* a request passes through the middleware
CallMiddleware ==
    /\ \E duration \in Durations :
          measured' = Measured("middleware", None, None, get_response, TRUE, duration,
                               Return(BenchmarkMiddleware_call(middleware, duration)),
                               benchmark.measurements)
    /\ UNCHANGED <<benchmark, middleware, outsideBenchmark>>

NextBenchmark == CallMeasured \/ WithMeasure \/ CallMiddleware

SpecBenchmark == InitBenchmark /\ [][NextBenchmark]_vars

(***************************************************************************)
(* Claims about the benchmark.                                             *)
(***************************************************************************)
\* the number of measurements recorded under a name
CountOf(measurements, name) ==
    IF name \in DOMAIN measurements THEN measurements[name].count ELSE 0

\* C12: measure(name), as a decorator or in a with statement, records each
\* execution under name: the wrapped function's return value is passed
\* through unchanged, the execution runs, and the report then has name with
\* one more in count and avg_time > 0.
C12_MeasureRecords ==
    (measured.op \in {"call", "with"} /\ measured.name # None) =>
        /\ measured.ran
        /\ measured.op = "call" => measured.result = Return(measured.body)
        /\ measured.name \in DOMAIN benchmark.measurements
        /\ CountOf(benchmark.measurements, measured.name)
              = CountOf(measured.before, measured.name) + 1
        /\ benchmark.measurements[measured.name].avg_time.num > 0

\* the headers of a response
HeadersOf(resp) == IF "headers" \in DOMAIN resp THEN resp.headers ELSE EmptyDict

\* C13: with the benchmark setting true, a response that passed through
\* BenchmarkMiddleware carries X-Django-Matt-Timing with a non-negative
\* decimal number followed by "ms"; with the setting false the middleware
\* returns the downstream response and adds no header.
C13_TimingHeader ==
    measured.op = "middleware" =>
        IF middleware.enabled
        THEN /\ measured.result.kind = "return"
             /\ "X-Django-Matt-Timing" \in DOMAIN HeadersOf(measured.result.value)
             /\ HeadersOf(measured.result.value)["X-Django-Matt-Timing"]
                   \in {format_ms(d) : d \in Durations}
        ELSE measured.result = Return(measured.body)

(***************************************************************************)
(* utils/performance.py: FastJSONRenderer and stream_json_list.            *)
(* JSON text is a sequence of tokens: punctuation, a space, a literal, a   *)
(* number or a string.  An int is a sign and its 16-bit limbs, the most    *)
(* significant first (0 has none); a dict keeps its keys in insertion      *)
(* order.                                                                  *)
(***************************************************************************)
MaxItems == 3              \* items handed to stream_json_list
MaxChunkSize == 4          \* the chunk_size argument

PyInt(sign, limbs) == [type |-> "int", sign |-> sign, limbs |-> limbs]
PyBool(b) == [type |-> "bool", value |-> b]
PyList(items) == [type |-> "list", items |-> items]
PyDict(keys, values) == [type |-> "dict", keys |-> keys, values |-> values]

Punct(c) == [kind |-> "punct", text |-> c]
Space == [kind |-> "space", text |-> " "]
Literal(t) == [kind |-> "literal", text |-> t]
StringToken(t) == [kind |-> "string", text |-> t]
NumberToken(n) == [kind |-> "number", text |-> "", int |-> n]

\* a str or bytes object holding JSON text
Text(type, tokens) == [type |-> type, text |-> tokens]

\* -2^63 <= n <= 2^64 - 1, the integers orjson serializes
fits_64_bits(n) ==
    IF n.sign >= 0 THEN Len(n.limbs) <= 4
    ELSE \/ Len(n.limbs) < 4
         \/ /\ Len(n.limbs) = 4
            /\ \/ n.limbs[1] < 32768
               \/ n.limbs[1] = 32768 /\ n.limbs[2] = 0 /\ n.limbs[3] = 0 /\ n.limbs[4] = 0

RECURSIVE orjson_serializable(_)
orjson_serializable(v) ==
    CASE v.type = "int" -> fits_64_bits(v)
      [] v.type = "list" -> \A i \in 1..Len(v.items) : orjson_serializable(v.items[i])
      [] v.type = "dict" -> \A i \in 1..Len(v.values) : orjson_serializable(v.values[i])
      [] OTHER -> TRUE

\* the separators of the encoders: json.dumps writes ", " and ": ", orjson
\* and ujson write "," and ":"
item_separator(lib) == IF lib = "json" THEN <<Punct(","), Space>> ELSE <<Punct(",")>>
key_separator(lib) == IF lib = "json" THEN <<Punct(":"), Space>> ELSE <<Punct(":")>>

RECURSIVE encode(_, _), encode_items(_, _, _), encode_members(_, _, _, _)
encode(v, lib) ==
    CASE v.type = "NoneType" -> <<Literal("null")>>
      [] v.type = "bool" -> <<Literal(IF v.value THEN "true" ELSE "false")>>
      [] v.type = "int" -> <<NumberToken(v)>>
      [] v.type = "str" -> <<StringToken(v.name)>>
      [] v.type = "list" -> <<Punct("[")>> \o encode_items(v.items, 1, lib) \o <<Punct("]")>>
      [] v.type = "dict" ->
            <<Punct("{")>> \o encode_members(v.keys, v.values, 1, lib) \o <<Punct("}")>>
encode_items(items, i, lib) ==
    IF i > Len(items) THEN <<>>
    ELSE (IF i > 1 THEN item_separator(lib) ELSE <<>>)
         \o encode(items[i], lib) \o encode_items(items, i + 1, lib)
encode_members(keys, values, i, lib) ==
    IF i > Len(keys) THEN <<>>
    ELSE (IF i > 1 THEN item_separator(lib) ELSE <<>>)
         \o <<StringToken(keys[i])>> \o key_separator(lib) \o encode(values[i], lib)
         \o encode_members(keys, values, i + 1, lib)

\* orjson.dumps(obj): bytes, or JSONEncodeError (a TypeError) for an integer
\* that exceeds 64 bits
orjson_dumps(obj) ==
    IF orjson_serializable(obj) THEN Return(Text("bytes", encode(obj, "orjson")))
    ELSE Raise(TypeError)

\* ujson.dumps(obj) and json.dumps(obj): a str
ujson_dumps(obj) == Text("str", encode(obj, "ujson"))
json_dumps(obj) == Text("str", encode(obj, "json"))

\* s.encode("utf-8") and s.decode("utf-8")
str_encode(s) == Text("bytes", s.text)
bytes_decode(s) == Text("str", s.text)

\* the decoder all three libraries share on the text the encoders write
Parsed(value, next) == [ok |-> TRUE, value |-> value, next |-> next]
ParseError == [ok |-> FALSE, value |-> PyNone, next |-> 0]

RECURSIVE skip_whitespace(_, _)
skip_whitespace(tokens, i) ==
    IF i <= Len(tokens) /\ tokens[i].kind = "space" THEN skip_whitespace(tokens, i + 1) ELSE i

at_punct(tokens, i, c) == i <= Len(tokens) /\ tokens[i].kind = "punct" /\ tokens[i].text = c
at_string(tokens, i) == i <= Len(tokens) /\ tokens[i].kind = "string"

RECURSIVE parse_value(_, _), parse_items(_, _, _), parse_members(_, _, _, _)
after_item(tokens, r, j, acc) ==
    IF ~r.ok THEN ParseError
    ELSE IF at_punct(tokens, j, ",") THEN parse_items(tokens, j + 1, Append(acc, r.value))
    ELSE IF at_punct(tokens, j, "]") THEN Parsed(PyList(Append(acc, r.value)), j + 1)
    ELSE ParseError
after_member(tokens, key, r, j, keys, values) ==
    IF ~r.ok THEN ParseError
    ELSE IF at_punct(tokens, j, ",")
    THEN parse_members(tokens, j + 1, Append(keys, key), Append(values, r.value))
    ELSE IF at_punct(tokens, j, "}")
    THEN Parsed(PyDict(Append(keys, key), Append(values, r.value)), j + 1)
    ELSE ParseError
member_value(tokens, k, c, keys, values, r) ==
    after_member(tokens, tokens[k].text, r, IF r.ok THEN skip_whitespace(tokens, r.next) ELSE 0,
                 keys, values)
parse_member(tokens, k, c, keys, values) ==
    IF ~(at_string(tokens, k) /\ at_punct(tokens, c, ":")) THEN ParseError
    ELSE member_value(tokens, k, c, keys, values, parse_value(tokens, c + 1))
item_value(tokens, acc, r) ==
    after_item(tokens, r, IF r.ok THEN skip_whitespace(tokens, r.next) ELSE 0, acc)
parse_at(tokens, i) ==
    IF i > Len(tokens) THEN ParseError
    ELSE CASE tokens[i].kind = "literal" ->
                 Parsed(IF tokens[i].text = "null" THEN PyNone
                        ELSE PyBool(tokens[i].text = "true"), i + 1)
           [] tokens[i].kind = "number" -> Parsed(tokens[i].int, i + 1)
           [] tokens[i].kind = "string" -> Parsed(Str(tokens[i].text), i + 1)
           [] at_punct(tokens, i, "[") -> parse_items(tokens, i + 1, <<>>)
           [] at_punct(tokens, i, "{") -> parse_members(tokens, i + 1, <<>>, <<>>)
           [] OTHER -> ParseError
parse_value(tokens, i) == parse_at(tokens, skip_whitespace(tokens, i))
parse_items(tokens, i, acc) ==
    IF acc = <<>> /\ at_punct(tokens, skip_whitespace(tokens, i), "]")
    THEN Parsed(PyList(<<>>), skip_whitespace(tokens, i) + 1)
    ELSE item_value(tokens, acc, parse_value(tokens, i))
parse_members(tokens, i, keys, values) ==
    IF keys = <<>> /\ at_punct(tokens, skip_whitespace(tokens, i), "}")
    THEN Parsed(PyDict(<<>>, <<>>), skip_whitespace(tokens, i) + 1)
    ELSE parse_member(tokens, skip_whitespace(tokens, i),
                      skip_whitespace(tokens, skip_whitespace(tokens, i) + 1), keys, values)

\* loads of a whole document: one value and nothing after it
document(tokens, r) ==
    IF r.ok /\ skip_whitespace(tokens, r.next) = Len(tokens) + 1 THEN Return(r.value)
    ELSE Raise(JSONDecodeError)
parse_document(tokens) == document(tokens, parse_value(tokens, 1))

\* orjson.loads takes str or bytes; ujson.loads and json.loads are given a str
orjson_loads(s) == parse_document(s.text)
ujson_loads(s) == parse_document(s.text)
stdlib_json_loads(s) == parse_document(s.text)

\* FastJSONRenderer.dumps(obj)
FastJSONRenderer_dumps(HAS_ORJSON, HAS_UJSON, obj) ==
    IF HAS_ORJSON THEN orjson_dumps(obj)
    ELSE IF HAS_UJSON THEN Return(str_encode(ujson_dumps(obj)))
    ELSE Return(str_encode(json_dumps(obj)))

\* FastJSONRenderer.loads(s)
FastJSONRenderer_loads(HAS_ORJSON, HAS_UJSON, s) ==
    IF HAS_ORJSON THEN orjson_loads(s)
    ELSE IF HAS_UJSON THEN ujson_loads(IF s.type = "bytes" THEN bytes_decode(s) ELSE s)
    ELSE stdlib_json_loads(IF s.type = "bytes" THEN bytes_decode(s) ELSE s)

\* "".join(buffer)
RECURSIVE str_join(_, _)
str_join(buffer, i) == IF i > Len(buffer) THEN <<>> ELSE buffer[i] \o str_join(buffer, i + 1)

\* stream_json_list(items_iterator, chunk_size): the chunks it yields; the
\* loop is at item i with the buffer and the chunks yielded so far
serialized_item(HAS_ORJSON, item) ==
    IF HAS_ORJSON THEN bytes_decode(orjson_dumps(item).value).text ELSE json_dumps(item).text
RECURSIVE stream_loop(_, _, _, _, _, _)
stream_buffered(HAS_ORJSON, items, i, chunk_size, buffer, chunks) ==
    IF Len(buffer) >= chunk_size
    THEN stream_loop(HAS_ORJSON, items, i + 1, chunk_size, <<>>,
                     Append(chunks, str_join(buffer, 1)))
    ELSE stream_loop(HAS_ORJSON, items, i + 1, chunk_size, buffer, chunks)
stream_loop_unflushed(HAS_ORJSON, items, i, chunk_size, buffer, chunks) ==
    IF i > Len(items)
    THEN chunks \o << <<Punct("]")>> >>
    ELSE stream_buffered(HAS_ORJSON, items, i, chunk_size,
                         (IF i = 1 THEN buffer ELSE Append(buffer, <<Punct(",")>>))
                         \o <<serialized_item(HAS_ORJSON, items[i])>>,
                         chunks)
stream_loop(HAS_ORJSON, items, i, chunk_size, buffer, chunks) ==
    IF i > Len(items)
    THEN (IF buffer # <<>> THEN Append(chunks, str_join(buffer, 1)) ELSE chunks)
         \o << <<Punct("]")>> >>
    ELSE stream_buffered(HAS_ORJSON, items, i, chunk_size,
                         (IF i = 1 THEN buffer ELSE Append(buffer, <<Punct(",")>>))
                         \o <<serialized_item(HAS_ORJSON, items[i])>>,
                         chunks)
stream_json_list(HAS_ORJSON, items, chunk_size) ==
    stream_loop(HAS_ORJSON, items, 1, chunk_size, <<>>, << <<Punct("[")>> >>)

(***************************************************************************)
(* The renderer and the streaming generator in use.                        *)
(***************************************************************************)
\* 0, 1, -1, -2^63 and 2^64
Zero == PyInt(1, <<>>)
One == PyInt(1, <<1>>)
Integers64 == {Zero, One, PyInt(-1, <<1>>), PyInt(-1, <<32768, 0, 0, 0>>)}
TwoTo64 == PyInt(1, <<1, 0, 0, 0, 0>>)

Atoms ==
    {PyNone, PyBool(TRUE), PyBool(FALSE), Str("value"), Str(""), Str("a,b")}
    \cup Integers64 \cup {TwoTo64}

\* {"key": "value", "nested": {"list": [1, 1, 0]}}
NestedData ==
    PyDict(<<"key", "nested">>,
           <<Str("value"), PyDict(<<"list">>, <<PyList(<<One, One, Zero>>)>>)>>)

\* values built from dicts with string keys, lists, strings, integers,
\* booleans and null
JsonValues ==
    Atoms
    \cup {PyList(<<>>), PyDict(<<>>, <<>>), NestedData}
    \cup {PyList(<<a>>) : a \in Atoms}
    \cup {PyList(<<a, b>>) : a, b \in {PyNone, One, Str("a,b")}}
    \cup {PyDict(<<"key">>, <<a>>) : a \in Atoms \cup {PyList(<<One, Zero>>)}}

\* the items a generator yields: each one serializable by either encoder
StreamItems ==
    {One, Str("a,b"), PyList(<<>>), PyDict(<<"id", "name">>, <<Zero, Str("Item 0")>>)}
ItemLists == UNION {[1..n -> StreamItems] : n \in 0..MaxItems}

library_name(HAS_ORJSON, HAS_UJSON) ==
    IF HAS_ORJSON THEN "orjson" ELSE IF HAS_UJSON THEN "ujson" ELSE "json"

InitJson ==
    /\ CoreIdle
    /\ BenchmarkIdle
    /\ HotReloadIdle
    /\ ConfigIdle
    /\ SchemaIdle
    /\ rendered = NotRendered

\* renderer.loads(renderer.dumps(obj))
RoundTrip ==
    /\ rendered = NotRendered
    /\ \E obj \in JsonValues, HAS_ORJSON \in BOOLEAN, HAS_UJSON \in BOOLEAN :
          \E dumped \in {FastJSONRenderer_dumps(HAS_ORJSON, HAS_UJSON, obj)} :
             rendered' = Rendered("roundtrip", library_name(HAS_ORJSON, HAS_UJSON), obj, 0,
                                  dumped,
                                  IF dumped.kind = "return"
                                  THEN FastJSONRenderer_loads(HAS_ORJSON, HAS_UJSON, dumped.value)
                                  ELSE NoOutcome,
                                  <<>>)
    /\ UNCHANGED outsideJson

\* "".join(stream_json_list(iter(items), chunk_size))
StreamJsonList ==
    /\ rendered = NotRendered
    /\ \E items \in ItemLists, chunk_size \in 1..MaxChunkSize, HAS_ORJSON \in BOOLEAN :
          rendered' = Rendered("stream", library_name(HAS_ORJSON, FALSE), PyList(items),
                               chunk_size, NoOutcome, NoOutcome,
                               stream_json_list(HAS_ORJSON, items, chunk_size))
    /\ UNCHANGED outsideJson

NextJson == RoundTrip \/ StreamJsonList

SpecJson == InitJson /\ [][NextJson]_vars

(***************************************************************************)
(* Claims about the renderer and the streaming generator.                  *)
(***************************************************************************)
\* C14: the chunks stream_json_list yields start with "[", end with "]" and
\* concatenate to one JSON array whose elements are the items in their
\* order, whatever the chunk size (so consecutive items are separated by
\* exactly one comma wherever the chunk boundaries fall).
C14_StreamedArray ==
    rendered.op = "stream" =>
        /\ Len(rendered.chunks) >= 2
        /\ rendered.chunks[1] = <<Punct("[")>>
        /\ Last(rendered.chunks) = <<Punct("]")>>
        /\ parse_document(str_join(rendered.chunks, 1)) = Return(rendered.obj)

\* three items streamed with chunk_size 2: a chunk boundary falls between an
\* item and the comma after it
C14_Witness ==
    /\ rendered.op = "stream"
    /\ rendered.chunk_size = 2
    /\ Len(rendered.obj.items) = 3
    /\ Len(rendered.chunks) = 4
    /\ rendered.chunks[3][1] = Punct(",")
    /\ parse_document(str_join(rendered.chunks, 1)) = Return(rendered.obj)

\* C15: FastJSONRenderer is a round trip on JSON data: dumps returns a str
\* and loads of it equals the value, whichever backend is selected.
C15_RoundTrip ==
    rendered.op = "roundtrip" =>
        /\ rendered.dumped.kind = "return"
        /\ rendered.dumped.value.type = "str"
        /\ rendered.loaded = Return(rendered.obj)

(***************************************************************************)
(* dev/hot_reload.py: HotReloadEventHandler, WebSocketServer and           *)
(* HotReloader.  The watchdog thread delivers file events, a Timer thread  *)
(* runs _trigger_reload, and one thread per client keeps its socket in     *)
(* WebSocketServer.clients.                                                *)
(***************************************************************************)
MaxClock == 6              \* the time the clock is followed to
MaxProcesses == 3          \* server subprocesses started in one behaviour

\* a file system event: its path, os.path.splitext(src_path)[1], whether an
\* ignored directory name or ignored file suffix occurs in the path
FileSystemEvent(src_path, ext, ignored, is_directory) ==
    [src_path |-> src_path, ext |-> ext, ignored |-> ignored, is_directory |-> is_directory]

watched_extensions == {".py", ".html", ".js", ".css"}

\* HotReloadEventHandler.on_any_event up to the debounce: is the event kept
watched(event) ==
    /\ ~event.is_directory
    /\ ~event.ignored
    /\ event.ext \in watched_extensions

\* HotReloadEventHandler.on_any_event: last_event_time and reload_timer after
\* the event
on_any_event(last, timer, event, current_time) ==
    IF ~watched(event) THEN [last_event_time |-> last, reload_timer |-> timer]
    ELSE IF current_time - last < debounce_seconds
    THEN [last_event_time |-> current_time, reload_timer |-> timer]
    ELSE [last_event_time |-> current_time,
          reload_timer |-> Timer(event, current_time + debounce_seconds, "pending")]

\* server_process.terminate(); wait(timeout=5); kill() on TimeoutExpired:
\* exits tells whether the process ends within the 5 s
stopped(process, exits) ==
    IF process.state # "running" THEN process
    ELSE [process EXCEPT !.state = IF exits THEN "terminated" ELSE "killed"]

\* HotReloader._start_server(command): the process list and server_process
_start_server(procs, current, command, exits) ==
    [processes |-> Append(IF current # 0
                          THEN [procs EXCEPT ![current] = stopped(procs[current], exits)]
                          ELSE procs,
                          Popen(command)),
     server_process |-> Len(procs) + 1]

\* HotReloader._handle_reload, the branch taken
branch(ext, current, use_websocket, websocket_server) ==
    IF ext = ".py" /\ current # 0 THEN "restart"
    ELSE IF use_websocket /\ websocket_server THEN "notify"
    ELSE "nothing"

\* the restart branch of _handle_reload
restart(procs, current, exits) ==
    _start_server([procs EXCEPT ![current] = stopped(procs[current], exits)], current,
                  procs[current].args, exits)

(***************************************************************************)
(* The hot reloader at work.                                               *)
(***************************************************************************)
FileSystemEvents ==
    {FileSystemEvent("app/views.py", ".py", FALSE, FALSE),
     FileSystemEvent("templates/index.html", ".html", FALSE, FALSE),
     FileSystemEvent("static/site.css", ".css", FALSE, FALSE),
     FileSystemEvent("README.md", ".md", FALSE, FALSE),
     FileSystemEvent("venv/lib/site.py", ".py", TRUE, FALSE),
     FileSystemEvent("app", "", FALSE, TRUE)}

InitHotReload ==
    /\ CoreIdle
    /\ BenchmarkIdle
    /\ JsonIdle
    /\ HotReloadIdle
    /\ ConfigIdle
    /\ SchemaIdle

\* time passes
Tick ==
    /\ clock < MaxClock
    /\ clock' = clock + 1
    /\ UNCHANGED <<last_event_time, reload_timer, processes, server_process, clients, closed,
                   received, sender, reload, outsideHotReload>>

\* the observer thread delivers a file system event
FileChanged ==
    /\ \E event \in FileSystemEvents :
          \E after \in {on_any_event(last_event_time, reload_timer, event, clock)} :
             /\ last_event_time' = after.last_event_time
             /\ reload_timer' = after.reload_timer
    /\ UNCHANGED <<clock, processes, server_process, clients, closed, received, sender, reload,
                   outsideHotReload>>

\* the timer runs _trigger_reload for a .py file: the server is restarted
TimerRestarts ==
    /\ reload_timer.state = "pending"
    /\ clock >= reload_timer.due
    /\ sender.pc = "idle"
    /\ branch(reload_timer.event.ext, server_process, TRUE, TRUE) = "restart"
    /\ Len(processes) < MaxProcesses
    /\ \E exits \in BOOLEAN :
          \E started \in {restart(processes, server_process, exits)} :
             /\ processes' = started.processes
             /\ server_process' = started.server_process
    /\ reload_timer' = [reload_timer EXCEPT !.state = "fired"]
    /\ reload' = Reload(reload_timer.event.ext, server_process, clients, closed, {}, "restarted")
    /\ UNCHANGED <<clock, last_event_time, clients, closed, received, sender, outsideHotReload>>

\* the timer runs _trigger_reload for another file: send_reload_message
\* begins to iterate over the clients
TimerNotifies ==
    /\ reload_timer.state = "pending"
    /\ clock >= reload_timer.due
    /\ sender.pc = "idle"
    /\ branch(reload_timer.event.ext, server_process, TRUE, TRUE) = "notify"
    /\ reload_timer' = [reload_timer EXCEPT !.state = "fired"]
    /\ sender' = Sender("sending", clients, Cardinality(clients), {})
    /\ reload' = Reload(reload_timer.event.ext, server_process, clients, closed, {}, "sending")
    /\ UNCHANGED <<clock, last_event_time, processes, server_process, clients, closed, received,
                   outsideHotReload>>

\* for client in self.clients: the set has changed size since the loop began
\* and the iterator raises RuntimeError, which ends the timer thread
IterationFails ==
    /\ sender.pc = "sending"
    /\ Cardinality(clients) # sender.used
    /\ sender' = SenderIdle
    /\ reload' = [reload EXCEPT !.outcome = "RuntimeError"]
    /\ UNCHANGED <<clock, last_event_time, reload_timer, processes, server_process, clients,
                   closed, received, outsideHotReload>>

\* for client in self.clients: client.sendall(message_bytes)
SendAll ==
    /\ sender.pc = "sending"
    /\ Cardinality(clients) = sender.used
    /\ \E client \in sender.todo \cap clients :
          /\ sender' = [sender EXCEPT !.todo = @ \ {client},
                                      !.disconnected = IF client \in closed
                                                       THEN @ \cup {client} ELSE @]
          /\ received' = IF client \in closed THEN received
                         ELSE [received EXCEPT ![client] = @ + 1]
          /\ reload' = IF client \in closed THEN reload
                       ELSE [reload EXCEPT !.notified = @ \cup {client}]
    /\ UNCHANGED <<clock, last_event_time, reload_timer, processes, server_process, clients,
                   closed, outsideHotReload>>

\* the loop is over: the clients whose sendall failed are closed and removed
\* (remove raises KeyError for one its own thread has removed already)
RemoveDisconnected ==
    /\ sender.pc = "sending"
    /\ Cardinality(clients) = sender.used
    /\ sender.todo \cap clients = {}
    /\ clients' = clients \ sender.disconnected
    /\ closed' = closed \ sender.disconnected
    /\ sender' = SenderIdle
    /\ reload' = [reload EXCEPT !.outcome = IF sender.disconnected \subseteq clients
                                            THEN "notified" ELSE "KeyError"]
    /\ UNCHANGED <<clock, last_event_time, reload_timer, processes, server_process, received,
                   outsideHotReload>>

\* WebSocketServer._handle_client: a browser connects and its thread adds
\* the socket to the clients
ClientConnects ==
    /\ \E client \in Clients \ clients :
          clients' = clients \cup {client}
    /\ UNCHANGED <<clock, last_event_time, reload_timer, processes, server_process, closed,
                   received, sender, reload, outsideHotReload>>

\* the browser closes its end (it does so when it reloads the page)
PeerCloses ==
    /\ \E client \in clients \ closed :
          /\ closed' = closed \cup {client}
          /\ reload' = [reload EXCEPT !.gone = @ \cup ({client} \cap reload.clients_before)]
    /\ UNCHANGED <<clock, last_event_time, reload_timer, processes, server_process, clients,
                   received, sender, outsideHotReload>>

\* WebSocketServer._handle_client: recv returns nothing, the thread closes
\* the socket and removes it from the clients
ClientRemoved ==
    /\ \E client \in closed \cap clients :
          /\ clients' = clients \ {client}
          /\ closed' = closed \ {client}
    /\ UNCHANGED <<clock, last_event_time, reload_timer, processes, server_process, received,
                   sender, reload, outsideHotReload>>

NextHotReload ==
    \/ Tick
    \/ FileChanged
    \/ TimerRestarts
    \/ TimerNotifies
    \/ IterationFails
    \/ SendAll
    \/ RemoveDisconnected
    \/ ClientConnects
    \/ PeerCloses
    \/ ClientRemoved

SpecHotReload == InitHotReload /\ [][NextHotReload]_vars

(***************************************************************************)
(* Claims about the hot reloader.                                          *)
(***************************************************************************)
\* the clients that were connected when the reload began and have been since
C16_ConnectedThroughout == reload.clients_before \ reload.gone

\* C16: a debounced change to a watched .py file restarts the server: the old
\* process is terminated or killed before a new one runs the same command,
\* and no browser is notified; a debounced change to a watched non-Python
\* file sends a reload message to every connected client and leaves the
\* server process alone.
C16_ReactsByKind ==
    /\ \A p \in 1..Len(processes) : processes[p].state = "running" => p = server_process
    /\ reload.outcome \notin {None, "sending"} =>
          IF reload.ext = ".py"
          THEN /\ reload.outcome = "restarted"
               /\ server_process # reload.server_before
               /\ processes[reload.server_before].state \in {"terminated", "killed"}
               /\ processes[server_process].args = processes[reload.server_before].args
               /\ reload.notified = {}
          ELSE /\ server_process = reload.server_before
               /\ processes[server_process].state = "running"
               /\ C16_ConnectedThroughout \subseteq reload.notified

(***************************************************************************)
(* django_matt.config: the settings modules and the ConfigurationManager.  *)
(* Of each settings dictionary the model keeps the keys more than one      *)
(* module sets and the security keys; the other keys are treated alike.    *)
(***************************************************************************)
\* the components a call of configure() lists at most
MaxComponents == 4

\* os.environ.get(key, default)
os_environ_get(env, key, default) == IF env[key] = None THEN default ELSE env[key]

\* os.environ.get(key, "False").lower() == "true"
environ_flag(env, key, default) == str_lower(os_environ_get(env, key, default)) = "true"

\* int() of the strings the variables hold
int(s) ==
    CASE s = "0" -> 0
      [] s = "300" -> 300
      [] s = "31536000" -> 31536000

\* config/base/__init__.py: settings
base_settings ==
    [DEBUG |-> FALSE,
     ROOT_URLCONF |-> None,
     INSTALLED_APPS |-> <<"django.contrib.admin", "django.contrib.auth",
                          "django.contrib.contenttypes", "django.contrib.sessions",
                          "django.contrib.messages", "django.contrib.staticfiles">>,
     MIDDLEWARE |-> <<"django.middleware.security.SecurityMiddleware",
                      "django.contrib.sessions.middleware.SessionMiddleware",
                      "django.middleware.common.CommonMiddleware",
                      "django.middleware.csrf.CsrfViewMiddleware",
                      "django.contrib.auth.middleware.AuthenticationMiddleware",
                      "django.contrib.messages.middleware.MessageMiddleware",
                      "django.middleware.clickjacking.XFrameOptionsMiddleware">>,
     DJANGO_MATT |-> [VERSION |-> "0.1.0", BENCHMARK_ENABLED |-> FALSE,
                      BENCHMARK_HEADER |-> "X-Django-Matt-Timing",
                      CACHE_ENABLED |-> FALSE, CACHE_TIMEOUT |-> 300,
                      CACHE_KEY_PREFIX |-> "django_matt:"]]

\* config/environments/development.py: settings
development_settings ==
    [DEBUG |-> TRUE,
     EMAIL_BACKEND |-> "django.core.mail.backends.console.EmailBackend",
     INSTALLED_APPS |-> <<"debug_toolbar">>,
     MIDDLEWARE |-> <<"debug_toolbar.middleware.DebugToolbarMiddleware">>,
     DJANGO_MATT |-> [BENCHMARK_ENABLED |-> TRUE, CACHE_ENABLED |-> TRUE]]

\* config/environments/staging.py: settings
staging_settings ==
    [DEBUG |-> FALSE,
     SECURE_SSL_REDIRECT |-> FALSE,
     SESSION_COOKIE_SECURE |-> FALSE,
     CSRF_COOKIE_SECURE |-> FALSE,
     EMAIL_BACKEND |-> "django.core.mail.backends.console.EmailBackend",
     DJANGO_MATT |-> [BENCHMARK_ENABLED |-> TRUE, CACHE_ENABLED |-> TRUE,
                      CACHE_TIMEOUT |-> 300, DB_TYPE |-> "postgres"]]

\* config/environments/production.py: settings
production_settings ==
    [DEBUG |-> FALSE,
     SECURE_HSTS_SECONDS |-> 31536000,
     SECURE_HSTS_INCLUDE_SUBDOMAINS |-> TRUE,
     SECURE_HSTS_PRELOAD |-> TRUE,
     SECURE_SSL_REDIRECT |-> TRUE,
     SESSION_COOKIE_SECURE |-> TRUE,
     CSRF_COOKIE_SECURE |-> TRUE,
     SECURE_BROWSER_XSS_FILTER |-> TRUE,
     SECURE_CONTENT_TYPE_NOSNIFF |-> TRUE,
     EMAIL_BACKEND |-> "django.core.mail.backends.smtp.EmailBackend",
     DJANGO_MATT |-> [BENCHMARK_ENABLED |-> FALSE, CACHE_ENABLED |-> TRUE,
                      CACHE_TIMEOUT |-> 3600, DB_TYPE |-> "postgres"]]

\* config/components/database.py: settings
database_settings(env) ==
    [DB_TYPE |-> str_lower(os_environ_get(env, "DB_TYPE", "postgres")),
     DB_PGVECTOR_ENABLED |-> FALSE]

\* config/components/cache.py: settings
cache_settings(env) ==
    [CACHE_MIDDLEWARE_ALIAS |-> "default",
     DJANGO_MATT |-> [CACHE_ENABLED |-> environ_flag(env, "DJANGO_MATT_CACHE_ENABLED", "True"),
                      CACHE_TIMEOUT |-> 300,
                      CACHE_KEY_PREFIX |-> "django_matt:"]]

\* config/components/security.py: settings
security_settings(env) ==
    [CSRF_COOKIE_SECURE |-> environ_flag(env, "CSRF_COOKIE_SECURE", "False"),
     CSRF_COOKIE_HTTPONLY |-> TRUE,
     SESSION_COOKIE_SECURE |-> environ_flag(env, "SESSION_COOKIE_SECURE", "False"),
     SESSION_COOKIE_HTTPONLY |-> TRUE,
     SECURE_BROWSER_XSS_FILTER |-> TRUE,
     SECURE_CONTENT_TYPE_NOSNIFF |-> TRUE,
     SECURE_HSTS_INCLUDE_SUBDOMAINS |->
         environ_flag(env, "SECURE_HSTS_INCLUDE_SUBDOMAINS", "False"),
     SECURE_HSTS_PRELOAD |-> environ_flag(env, "SECURE_HSTS_PRELOAD", "False"),
     SECURE_HSTS_SECONDS |-> int(os_environ_get(env, "SECURE_HSTS_SECONDS", "0")),
     SECURE_SSL_REDIRECT |-> environ_flag(env, "SECURE_SSL_REDIRECT", "False")]

\* config/components/performance.py: settings
performance_settings(env) ==
    [DJANGO_MATT |->
         [BENCHMARK_ENABLED |-> environ_flag(env, "DJANGO_MATT_BENCHMARK_ENABLED", "False"),
          BENCHMARK_HEADER |-> "X-Django-Matt-Timing"],
     MIDDLEWARE |-> <<"django.middleware.gzip.GZipMiddleware",
                      "django.middleware.http.ConditionalGetMiddleware">>]

\* importlib.import_module("django_matt.config.environments." + environment).settings
environment_settings(environment) ==
    CASE environment = "development" -> development_settings
      [] environment = "staging" -> staging_settings
      [] environment = "production" -> production_settings

\* importlib.import_module("django_matt.config.components." + component).settings
component_settings(component, env) ==
    CASE component = "database" -> database_settings(env)
      [] component = "cache" -> cache_settings(env)
      [] component = "security" -> security_settings(env)
      [] component = "performance" -> performance_settings(env)

\* ConfigurationManager.load_base
load_base(self) ==
    IF ~self.base_loaded
    THEN [self EXCEPT !.settings = Merge(@, base_settings), !.base_loaded = TRUE]
    ELSE self

\* ConfigurationManager.load_environment
load_environment(self, environment) ==
    IF environment \in self.loaded_environments
    THEN self
    ELSE [self EXCEPT !.settings = Merge(@, environment_settings(environment)),
                      !.loaded_environments = @ \cup {environment}]

\* ConfigurationManager.load_component
load_component(self, component, env) ==
    IF component \in self.loaded_components
    THEN self
    ELSE [self EXCEPT !.settings = Merge(@, component_settings(component, env)),
                      !.loaded_components = @ \cup {component}]

\* ConfigurationManager.load_components
RECURSIVE load_components(_, _, _)
load_components(self, components, env) ==
    IF components = <<>>
    THEN self
    ELSE load_components(load_component(self, Head(components), env), Tail(components), env)

\* ConfigurationManager.apply_to_django_settings: the manager and
\* django.conf.settings after it
apply_to_django_settings(self, target) ==
    IF self.django_settings_applied
    THEN [self |-> self, django_settings |-> target]
    ELSE [self |-> [self EXCEPT !.django_settings_applied = TRUE],
          django_settings |-> Merge(target, self.settings)]

\* ConfigurationManager.configure up to its last step: the manager with the
\* settings of the base, the environment, the components and extra_settings
configure_settings(self, environment, components, extra_settings, env) ==
    LET based == load_base(self)
        with_environment == load_environment(based, environment)
        with_components == IF components # <<>>
                           THEN load_components(with_environment, components, env)
                           ELSE with_environment
    IN  IF DOMAIN extra_settings # {}
        THEN [with_components EXCEPT !.settings = Merge(@, extra_settings)]
        ELSE with_components

\* ConfigurationManager.configure
configure(self, target, environment, components, extra_settings, apply_to_django, env) ==
    IF apply_to_django
    THEN apply_to_django_settings(
             configure_settings(self, environment, components, extra_settings, env), target)
    ELSE [self |-> configure_settings(self, environment, components, extra_settings, env),
          django_settings |-> target]

\* the environment modules and the component modules of the package
Environments == {"development", "staging", "production"}
Components == {"database", "cache", "security", "performance"}

\* the lists of components a settings file passes: no component twice
ComponentLists ==
    {l \in UNION {[1..n -> Components] : n \in 0..MaxComponents} :
        \A i, j \in 1..Len(l) : l[i] = l[j] => i = j}

\* extra_settings: none, the project settings of examples/settings_example.py,
\* and an override of a key the other sources set
ExtraSettings ==
    {EmptyDict,
     [ROOT_URLCONF |-> "myproject.urls",
      INSTALLED_APPS |-> <<"myproject.apps.core", "myproject.apps.users",
                           "myproject.apps.api">>,
      MIDDLEWARE |-> <<"myproject.middleware.custom_middleware">>],
     [DEBUG |-> TRUE, EMAIL_BACKEND |-> "myproject.mail.Backend"]}

\* the process environments: nothing set, the security variables set to the
\* hardened values, and the feature switches set
Environs ==
    {UnsetEnviron,
     [UnsetEnviron EXCEPT !.CSRF_COOKIE_SECURE = "True", !.SESSION_COOKIE_SECURE = "True",
                          !.SECURE_HSTS_INCLUDE_SUBDOMAINS = "True",
                          !.SECURE_HSTS_PRELOAD = "true", !.SECURE_HSTS_SECONDS = "31536000",
                          !.SECURE_SSL_REDIRECT = "True"],
     [UnsetEnviron EXCEPT !.DJANGO_MATT_CACHE_ENABLED = "False",
                          !.DJANGO_MATT_BENCHMARK_ENABLED = "true", !.DB_TYPE = "sqlite"]}

InitConfig ==
    /\ CoreIdle
    /\ BenchmarkIdle
    /\ JsonIdle
    /\ HotReloadIdle
    /\ SchemaIdle
    /\ os_environ \in Environs
    /\ config = ConfigurationManager
    /\ django_settings = EmptyDict
    /\ configured = NotConfigured

\* the settings file of a project calls configure()
Configure ==
    /\ configured.environment = None
    /\ \E environment \in Environments, components \in ComponentLists :
          \E extra_settings \in ExtraSettings, apply_to_django \in BOOLEAN :
             \E after \in {configure(config, django_settings, environment, components,
                                     extra_settings, apply_to_django, os_environ)} :
                /\ config' = after.self
                /\ django_settings' = after.django_settings
                /\ configured' = Configured(environment, components, extra_settings,
                                            after.self.settings)
    /\ UNCHANGED <<os_environ, outsideConfig>>

NextConfig == Configure

SpecConfig == InitConfig /\ [][NextConfig]_vars

(***************************************************************************)
(* Claims about the configuration system.                                  *)
(***************************************************************************)
\* the settings dictionaries a call of configure() on a fresh manager loads,
\* in the order it loads them
config_sources ==
    <<base_settings, environment_settings(configured.environment)>>
    \o [i \in 1..Len(configured.components) |->
            component_settings(configured.components[i], os_environ)]
    \o (IF DOMAIN configured.extra_settings # {} THEN <<configured.extra_settings>> ELSE <<>>)

\* C18: configure(environment='production', components=[...]) with the
\* related environment variables unset returns settings in which
\* SECURE_SSL_REDIRECT, SESSION_COOKIE_SECURE, CSRF_COOKIE_SECURE,
\* SECURE_HSTS_INCLUDE_SUBDOMAINS and SECURE_HSTS_PRELOAD are True,
\* SECURE_HSTS_SECONDS is 31536000 and DEBUG is False, whichever of the
\* components database, cache, security and performance are loaded.
C18_ProductionHardened ==
    (/\ configured.environment = "production"
     /\ DOMAIN configured.extra_settings = {}
     /\ os_environ = UnsetEnviron)
    => /\ configured.settings.SECURE_SSL_REDIRECT = TRUE
       /\ configured.settings.SESSION_COOKIE_SECURE = TRUE
       /\ configured.settings.CSRF_COOKIE_SECURE = TRUE
       /\ configured.settings.SECURE_HSTS_INCLUDE_SUBDOMAINS = TRUE
       /\ configured.settings.SECURE_HSTS_PRELOAD = TRUE
       /\ configured.settings.SECURE_HSTS_SECONDS = 31536000
       /\ configured.settings.DEBUG = FALSE

\* the keys whose values are lists, and the keys whose values are scalars
ListSettings == {"INSTALLED_APPS", "MIDDLEWARE"}
ScalarSettings(settings) == DOMAIN settings \ (ListSettings \cup {"DJANGO_MATT"})

\* the last of the sources that sets the key
latest_source(sources, key) ==
    sources[CHOOSE i \in DOMAIN sources :
                /\ key \in DOMAIN sources[i]
                /\ \A j \in DOMAIN sources : key \in DOMAIN sources[j] => j <= i]

\* C19: after configure(environment, components, extra_settings) every
\* list-valued setting holds the entries of every source that sets it, the
\* DJANGO_MATT dictionary holds the keys of every source that sets it, and a
\* scalar setting has the value of the latest source that sets it, in the
\* order base, environment, components, extra_settings.
C19_SourcesMerged ==
    configured.environment # None =>
       /\ \A i \in DOMAIN config_sources, key \in ListSettings :
             key \in DOMAIN config_sources[i] =>
                Range(config_sources[i][key]) \subseteq Range(configured.settings[key])
       /\ \A i \in DOMAIN config_sources :
             "DJANGO_MATT" \in DOMAIN config_sources[i] =>
                DOMAIN config_sources[i].DJANGO_MATT
                   \subseteq DOMAIN configured.settings.DJANGO_MATT
       /\ \A key \in ScalarSettings(configured.settings) :
             configured.settings[key] = latest_source(config_sources, key)[key]

(***************************************************************************)
(* Schema generation: core/schema.py and the generate_crud command.        *)
(* A Python type is a sequence of names: int is <<"int">>, Optional[int]   *)
(* is <<"Optional", "int">>.                                               *)
(***************************************************************************)
\* django.db.models: the field classes each field class derives from
FieldBases(cls) ==
    CASE cls \in {"AutoField", "BigIntegerField", "SmallIntegerField",
                  "PositiveIntegerField"} -> {"IntegerField"}
      [] cls \in {"BigAutoField", "PositiveBigIntegerField"} -> {"BigIntegerField"}
      [] cls \in {"SmallAutoField", "PositiveSmallIntegerField"} -> {"SmallIntegerField"}
      [] cls \in {"EmailField", "SlugField", "URLField"} -> {"CharField"}
      [] cls = "DateTimeField" -> {"DateField"}
      [] cls = "ImageField" -> {"FileField"}
      [] cls = "OneToOneField" -> {"ForeignKey"}
      [] OTHER -> {}

\* the field classes in the method resolution order of a field class
RECURSIVE FieldMro(_)
FieldMro(cls) == {cls} \cup UNION {FieldMro(base) : base \in FieldBases(cls)}

\* isinstance(field, classes); AutoFieldMeta.__instancecheck__ makes the big
\* and small auto fields instances of AutoField
isinstance_field(field, classes) ==
    \/ FieldMro(field.field_class) \cap classes # {}
    \/ "AutoField" \in classes /\ field.field_class \in {"BigAutoField", "SmallAutoField"}

\* typing.Optional[python_type]
Optional(python_type) == <<"Optional">> \o python_type

\* typing.Any
typing_Any == <<"Any">>

\* core/schema.py: FIELD_TYPE_MAP, in the order of its items()
FIELD_TYPE_MAP ==
    <<[field_class |-> "AutoField", python_type |-> <<"int">>],
      [field_class |-> "BigAutoField", python_type |-> <<"int">>],
      [field_class |-> "BigIntegerField", python_type |-> <<"int">>],
      [field_class |-> "BooleanField", python_type |-> <<"bool">>],
      [field_class |-> "CharField", python_type |-> <<"str">>],
      [field_class |-> "DateField", python_type |-> <<"datetime.date">>],
      [field_class |-> "DateTimeField", python_type |-> <<"datetime.datetime">>],
      [field_class |-> "DecimalField", python_type |-> <<"float">>],
      [field_class |-> "EmailField", python_type |-> <<"str">>],
      [field_class |-> "FloatField", python_type |-> <<"float">>],
      [field_class |-> "IntegerField", python_type |-> <<"int">>],
      [field_class |-> "PositiveIntegerField", python_type |-> <<"int">>],
      [field_class |-> "PositiveSmallIntegerField", python_type |-> <<"int">>],
      [field_class |-> "SlugField", python_type |-> <<"str">>],
      [field_class |-> "SmallIntegerField", python_type |-> <<"int">>],
      [field_class |-> "TextField", python_type |-> <<"str">>],
      [field_class |-> "TimeField", python_type |-> <<"datetime.time">>],
      [field_class |-> "URLField", python_type |-> <<"str">>],
      [field_class |-> "UUIDField", python_type |-> <<"uuid.UUID">>],
      [field_class |-> "JSONField", python_type |-> <<"dict", "str", "Any">>]>>

\* for field_class, python_type in FIELD_TYPE_MAP.items(): the items from
\* position i on
RECURSIVE lookup_from(_, _)
lookup_from(field, i) ==
    IF i > Len(FIELD_TYPE_MAP)
    THEN typing_Any
    ELSE IF isinstance_field(field, {FIELD_TYPE_MAP[i].field_class})
         THEN FIELD_TYPE_MAP[i].python_type
         ELSE lookup_from(field, i + 1)

\* _get_python_type_for_field
_get_python_type_for_field(field) ==
    IF isinstance_field(field, {"ForeignKey", "OneToOneField"})
    THEN <<"int">>
    ELSE IF isinstance_field(field, {"ManyToManyField"})
         THEN <<"list", "int">>
         ELSE lookup_from(field, 1)

\* create_schema_from_model: the annotation of one field
field_annotation(field) ==
    IF field.null
    THEN Optional(_get_python_type_for_field(field))
    ELSE _get_python_type_for_field(field)

\* Command._get_python_type
Command_get_python_type(field) ==
    IF isinstance_field(field, {"CharField"}) \/ isinstance_field(field, {"TextField"})
    THEN "str"
    ELSE IF isinstance_field(field, {"IntegerField"}) \/ isinstance_field(field, {"AutoField"})
    THEN "int"
    ELSE IF isinstance_field(field, {"BooleanField"})
    THEN "bool"
    ELSE IF isinstance_field(field, {"FloatField"}) \/ isinstance_field(field, {"DecimalField"})
    THEN "float"
    ELSE IF isinstance_field(field, {"DateField"})
    THEN "date"
    ELSE IF isinstance_field(field, {"DateTimeField"})
    THEN "datetime"
    ELSE IF isinstance_field(field, {"TimeField"})
    THEN "time"
    ELSE IF isinstance_field(field, {"JSONField"})
    THEN "dict"
    ELSE IF isinstance_field(field, {"UUIDField"})
    THEN "UUID"
    ELSE IF isinstance_field(field, {"ForeignKey", "OneToOneField"})
    THEN "int"
    ELSE IF isinstance_field(field, {"ManyToManyField"})
    THEN "List[int]"
    ELSE "Any"

\* Command._get_model_fields: "required" of one field
field_required(field) == ~field.null /\ ~field.blank

\* the field classes of django.db.models that model._meta.fields can hold
FieldClasses ==
    {FIELD_TYPE_MAP[i].field_class : i \in DOMAIN FIELD_TYPE_MAP}
    \cup {"ForeignKey", "OneToOneField", "SmallAutoField", "PositiveBigIntegerField",
          "BinaryField", "DurationField", "FileField", "ImageField",
          "GenericIPAddressField"}

\* the fields of the models
ModelFields == [field_class : FieldClasses, null : BOOLEAN, blank : BOOLEAN]

InitSchema ==
    /\ CoreIdle
    /\ BenchmarkIdle
    /\ JsonIdle
    /\ HotReloadIdle
    /\ ConfigIdle
    /\ schema = NotGenerated

\* create_schema_from_model reaches a field of the model
CreateSchemaFromModel ==
    /\ schema.field_class = None
    /\ \E field \in ModelFields :
          schema' = Generated(field.field_class, field.null, field.blank,
                              field_annotation(field), None, FALSE)
    /\ UNCHANGED outsideSchema

\* generate_crud reaches a field of the model
GetModelFields ==
    /\ schema.field_class = None
    /\ \E field \in ModelFields :
          schema' = Generated(field.field_class, field.null, field.blank, <<>>,
                              Command_get_python_type(field), field_required(field))
    /\ UNCHANGED outsideSchema

NextSchema == CreateSchemaFromModel \/ GetModelFields

SpecSchema == InitSchema /\ [][NextSchema]_vars

(***************************************************************************)
(* Claims about schema generation.                                         *)
(***************************************************************************)
\* the type FIELD_TYPE_MAP lists for the field class itself
listed_type(cls) ==
    FIELD_TYPE_MAP[CHOOSE i \in DOMAIN FIELD_TYPE_MAP :
                       FIELD_TYPE_MAP[i].field_class = cls].python_type

\* the field classes FIELD_TYPE_MAP has an entry for
ListedClasses == {FIELD_TYPE_MAP[i].field_class : i \in DOMAIN FIELD_TYPE_MAP}

\* the type the schema of a field of this class is to carry before Optional
\* is applied: the relation and listed classes have one, as have the classes
\* with no listed ancestor
own_types(cls) ==
    IF cls \in {"ForeignKey", "OneToOneField"} THEN {<<"int">>}
    ELSE IF cls \in ListedClasses THEN {listed_type(cls)}
    ELSE IF FieldMro(cls) \cap ListedClasses = {} THEN {typing_Any}
    ELSE {listed_type(base) : base \in FieldMro(cls) \cap ListedClasses}

\* C20: schema generation gives every model field the Python type that
\* FIELD_TYPE_MAP lists for the field's own class (datetime.datetime for a
\* DateTimeField, datetime.date for a DateField), int for ForeignKey and
\* OneToOneField, Any for a class with no entry and no listed ancestor, and
\* Optional of that type when the field has null=True; the CRUD generator
\* emits 'datetime' for a DateTimeField and 'date' for a DateField.
C20_TypeOfOwnClass ==
    /\ schema.python_type # <<>> =>
          \E own \in own_types(schema.field_class) :
             schema.python_type = IF schema.null THEN Optional(own) ELSE own
    /\ schema.crud_type # None =>
          /\ schema.field_class = "DateTimeField" => schema.crud_type = "datetime"
          /\ schema.field_class = "DateField" => schema.crud_type = "date"

====
